---- MODULE Spec2Model ----
(***************************************************************************)
(* A model of the granular engine of GranularProcessor: the circular       *)
(* buffer (Source/DSP/CircularBuffer.h), the grain and the grain pool      *)
(* (Grain.h, GrainPool.h), the grain scheduler (GrainScheduler.h) and the  *)
(* block processing of the engine (GranularEngine.h).                      *)
(*                                                                         *)
(* Numbers.  The code computes in float; the model computes in exact       *)
(* fixed point:                                                            *)
(*   - a buffer position is an integer count of 1/PosDen samples;          *)
(*   - a value read by readSample is an integer count of 1/HermDen of the  *)
(*     unit the stored samples are counted in;                             *)
(*   - a length in seconds is an integer count of tenths of a second, a    *)
(*     grain size an integer count of tenths of a millisecond, a density   *)
(*     an integer count of tenths of a grain per second, a feedback amount *)
(*     an integer count of hundredths (the steps of ParameterLayout.cpp).  *)
(* static_cast<int> truncates toward zero (TruncDiv), the int operator %   *)
(* and std::fmod take the sign of the dividend (CMod, Fmod).               *)
(***************************************************************************)
EXTENDS Integers, Sequences, FiniteSets, TLC

VARIABLES
    circularBuffer,   \* GranularEngine::circularBuffer, the CircularBuffer object
    pool,             \* GranularEngine::pool, GrainPool::grains
    scheduler,        \* GranularEngine::scheduler, the GrainScheduler object
    writePositions,   \* GranularEngine::writePositions
    lfo,              \* GranularEngine::lfo, the LFOModulator object
    postProcessor,    \* GranularEngine::postProcessor, the PostProcessor object
    visualData,       \* GranularEngine::visualData and the threads that use it
    op,               \* history: the operation that produced this state
    hist              \* history: what the properties compare the state with

vars == <<circularBuffer, pool, scheduler, writePositions, lfo, postProcessor,
          visualData, op, hist>>

----------------------------------------------------------------------------
(* Arithmetic of the C++ build *)

\* int / int and static_cast<int> of a quotient: truncation toward zero
TruncDiv(a, b) ==
    IF a >= 0 THEN a \div b ELSE -((-a) \div b)

\* the int operator %: the result has the sign of the dividend
CMod(a, b) ==
    IF a >= 0 THEN a % b ELSE -((-a) % b)

\* std::fmod on fixed-point numerators: the result has the sign of the dividend
Fmod(a, b) ==
    IF a >= 0 THEN a % b ELSE -((-a) % b)

\* juce::jlimit (lo, hi, v)
jlimit(lo, hi, v) ==
    IF v < lo THEN lo ELSE IF hi < v THEN hi ELSE v

\* juce::jmax (a, b)
jmax(a, b) ==
    IF a < b THEN b ELSE a

----------------------------------------------------------------------------
(* Program constants *)

kMaxGrains == 64

\* kMaxBufferSeconds = 10.0f, in tenths of a second
kMaxBufferSeconds == 100

\* kMinGrainSizeMs = 10.0f and kMaxGrainSizeMs = 500.0f, in tenths of a
\* millisecond
kMinGrainSizeMs == 100

kMaxGrainSizeMs == 5000

\* GranularConstants::kMaxFeedback, in hundredths
kMaxFeedback == 95

\* kMaxDensity, in tenths of a grain per second
kMaxDensity == 500

----------------------------------------------------------------------------
(* Resolution of the fixed-point positions *)

PosDen == 2

HermDen == 2 * PosDen * PosDen * PosDen

----------------------------------------------------------------------------
(* CircularBuffer *)

\* CircularBuffer::prepare; maxLengthTenths is maxLengthSeconds in tenths
CircularBuffer_prepare(sampleRate, numChannels, maxLengthTenths) ==
    LET max == TruncDiv(sampleRate * maxLengthTenths, 10)
    IN  [ sr            |-> sampleRate,
          channels      |-> numChannels,
          maxSamples    |-> max,
          buffer        |-> [ch \in 0..(numChannels - 1) |-> [i \in 0..(max - 1) |-> 0]],
          writePos      |-> 0,
          activeSamples |-> max,
          frozen        |-> FALSE ]

\* setBufferLength with the lower limit only
setBufferLength_NoUpperLimit(cb, lengthTenths) ==
    [cb EXCEPT !.activeSamples = jmax(1, TruncDiv(cb.sr * lengthTenths, 10))]

\* CircularBuffer::setBufferLength; lengthTenths is lengthSeconds in tenths
setBufferLength(cb, lengthTenths) ==
    [cb EXCEPT !.activeSamples =
        jlimit(1, cb.maxSamples, TruncDiv(cb.sr * lengthTenths, 10))]

\* CircularBuffer::setFrozen
setFrozen(cb, shouldFreeze) ==
    [cb EXCEPT !.frozen = shouldFreeze]

\* the index CircularBuffer::writeSample stores at
WriteIndex(cb) ==
    CMod(cb.writePos, cb.activeSamples)

\* writeSample without the frozen test
writeSample_NoFreezeTest(cb, channel, sample) ==
    [cb EXCEPT !.buffer[channel][CMod(cb.writePos, cb.activeSamples)] = sample]

\* CircularBuffer::writeSample
writeSample(cb, channel, sample) ==
    IF cb.frozen
    THEN cb
    ELSE [cb EXCEPT !.buffer[channel][WriteIndex(cb)] = sample]

\* advanceWritePosition wrapping at the allocated length, not the active one
advanceWritePosition_MaxSamples(cb) ==
    IF cb.frozen
    THEN cb
    ELSE [cb EXCEPT !.writePos = CMod(cb.writePos + 1, cb.maxSamples)]

\* CircularBuffer::getWritePosition
getWritePosition(cb) == cb.writePos

\* CircularBuffer::getActiveLength
getActiveLength(cb) == cb.activeSamples

\* CircularBuffer::advanceWritePosition
advanceWritePosition(cb) ==
    IF cb.frozen
    THEN cb
    ELSE [cb EXCEPT !.writePos = CMod(cb.writePos + 1, cb.activeSamples)]

\* the index CircularBuffer::writeFeedbackAt adds at
FeedbackIndex(cb, position) ==
    CMod(CMod(position, cb.activeSamples) + cb.activeSamples, cb.activeSamples)

\* writeFeedbackAt storing the sample in place of the one there
writeFeedbackAt_Overwrite(cb, channel, position, sample) ==
    IF cb.frozen
    THEN cb
    ELSE LET pos == FeedbackIndex(cb, position)
         IN  [cb EXCEPT !.buffer[channel][pos] = sample]

\* CircularBuffer::writeFeedbackAt
writeFeedbackAt(cb, channel, position, sample) ==
    IF cb.frozen
    THEN cb
    ELSE LET pos      == FeedbackIndex(cb, position)
             existing == cb.buffer[channel][pos]
             combined == existing + sample
         IN  [cb EXCEPT !.buffer[channel][pos] = combined]

\* the wrapped position taken modulo the allocated length, not the active one
ReadPos_MaxSamples(cb, fractionalPos) ==
    LET len        == cb.maxSamples
        normalised == Fmod(fractionalPos, len * PosDen)
    IN  IF normalised < 0 THEN normalised + len * PosDen ELSE normalised

\* the wrapped position of CircularBuffer::readSample (normalised, pos)
ReadPos(cb, fractionalPos) ==
    LET len        == cb.activeSamples
        normalised == Fmod(fractionalPos, len * PosDen)
    IN  IF normalised < 0 THEN normalised + len * PosDen ELSE normalised

\* readSample returning the sample after the one at the position
readSample_NextSample(cb, channel, fractionalPos) ==
    LET len == cb.activeSamples
        pos == ReadPos(cb, fractionalPos)
        i1  == CMod(pos \div PosDen + 1, len)
    IN  HermDen * cb.buffer[channel][i1]

\* CircularBuffer::readSample; fractionalPos counts 1/PosDen samples and the
\* result counts 1/HermDen of the sample unit
readSample(cb, channel, fractionalPos) ==
    LET len  == cb.activeSamples
        pos  == ReadPos(cb, fractionalPos)
        i0   == pos \div PosDen
        frac == pos - i0 * PosDen
        im1  == CMod(i0 - 1 + len, len)
        i1   == CMod(i0 + 1, len)
        i2   == CMod(i0 + 2, len)
        ym1  == cb.buffer[channel][im1]
        y0   == cb.buffer[channel][i0]
        y1   == cb.buffer[channel][i1]
        y2   == cb.buffer[channel][i2]
        \* twice the coefficients c0..c3
        c0   == 2 * y0
        c1   == y1 - ym1
        c2   == 2 * ym1 - 5 * y0 + 4 * y1 - y2
        c3   == (y2 - ym1) + 3 * (y0 - y1)
    IN  ((c3 * frac + c2 * PosDen) * frac + c1 * PosDen * PosDen) * frac
            + c0 * PosDen * PosDen * PosDen

----------------------------------------------------------------------------
(* Grain *)

\* a default-constructed Grain after Grain::reset (GrainPool::GrainPool).
\* startPos and playbackRate count 1/PosDen; pan counts hundredths;
\* attackFrac and decayFrac count thousandths
NewGrain ==
    [ active        |-> FALSE,
      startPos      |-> 0,
      lengthSamples |-> 0,
      currentSample |-> 0,
      playbackRate  |-> PosDen,
      pan           |-> 0,
      attackFrac    |-> 250,
      decayFrac     |-> 250,
      envShape      |-> "Hanning",
      reversed      |-> FALSE,
      gain          |-> 1 ]

\* Grain::getReadPosition, in 1/PosDen samples
getReadPosition(g) ==
    IF g.reversed
    THEN g.startPos - g.currentSample * g.playbackRate
    ELSE g.startPos + g.currentSample * g.playbackRate

\* advance without the test of the active flag
Grain_advance_NoActiveTest(g) ==
    LET n == g.currentSample + 1
    IN  IF n >= g.lengthSamples
        THEN [g EXCEPT !.currentSample = n, !.active = FALSE]
        ELSE [g EXCEPT !.currentSample = n]

\* advance ending the grain one sample late
Grain_advance_OneLate(g) ==
    IF ~ g.active
    THEN g
    ELSE LET n == g.currentSample + 1
         IN  IF n > g.lengthSamples
             THEN [g EXCEPT !.currentSample = n, !.active = FALSE]
             ELSE [g EXCEPT !.currentSample = n]

\* Grain::advance: the grain after the call
Grain_advance(g) ==
    IF ~ g.active
    THEN g
    ELSE LET n == g.currentSample + 1
         IN  IF n >= g.lengthSamples
             THEN [g EXCEPT !.currentSample = n, !.active = FALSE]
             ELSE [g EXCEPT !.currentSample = n]

\* Grain::advance: the value the call returns
Grain_advance_result(g) ==
    IF ~ g.active
    THEN FALSE
    ELSE g.currentSample + 1 < g.lengthSamples

\* Grain::reset
Grain_reset(g) ==
    [g EXCEPT !.active = FALSE, !.currentSample = 0, !.lengthSamples = 0]

----------------------------------------------------------------------------
(* GrainPool: grains is a sequence, slot i of the array is grains[i + 1] *)

\* GrainPool::GrainPool
GrainPool_new ==
    [i \in 1..kMaxGrains |-> Grain_reset(NewGrain)]

\* the slot GrainPool::acquire returns, 0 for nullptr
FirstFree(grains) ==
    IF \E i \in DOMAIN grains : ~ grains[i].active
    THEN CHOOSE i \in DOMAIN grains :
             /\ ~ grains[i].active
             /\ \A j \in DOMAIN grains : j < i => grains[j].active
    ELSE 0

\* acquire growing the pool when no slot is free
acquire_Grow(grains) ==
    LET i == FirstFree(grains)
    IN  IF i = 0
        THEN Append(grains, [NewGrain EXCEPT !.active = TRUE])
        ELSE [grains EXCEPT ![i].active = TRUE, ![i].currentSample = 0]

\* acquire that leaves the sample counter of the slot as it is
acquire_KeepsCount(grains) ==
    LET i == FirstFree(grains)
    IN  IF i = 0
        THEN grains
        ELSE [grains EXCEPT ![i].active = TRUE]

\* GrainPool::acquire: the grains after the call
acquire(grains) ==
    LET i == FirstFree(grains)
    IN  IF i = 0
        THEN grains
        ELSE [grains EXCEPT ![i].active = TRUE, ![i].currentSample = 0]

\* GrainPool::getActiveCount
getActiveCount(grains) ==
    Cardinality({i \in DOMAIN grains : grains[i].active})

\* GrainPool::resetAll
resetAll(grains) ==
    [i \in DOMAIN grains |-> Grain_reset(grains[i])]

\* GrainPool::processAll with the callback of GranularEngine::process, whose
\* effect on the pool is grain.advance() on every grain that is active
processAll(grains) ==
    [i \in DOMAIN grains |-> Grain_advance(grains[i])]

----------------------------------------------------------------------------
(* GrainScheduler *)

\* GrainScheduler::prepare
GrainScheduler_prepare(sampleRate) ==
    [sr |-> sampleRate, samplesUntilNextGrain |-> 0]

\* GrainScheduler::reset
GrainScheduler_reset(sch) ==
    [sch EXCEPT !.samplesUntilNextGrain = 0]

\* the interval one sample short
IntervalSamples_OneShort(sr, density) ==
    TruncDiv(sr * 10, jmax(1, density)) - 1

\* intervalSamples truncated to int: sr / jmax (0.1f, density), density in tenths
IntervalSamples(sr, density) ==
    TruncDiv(sr * 10, jmax(1, density))

\* the grain duration with the product rounded to the nearest integer
GrainDuration_Rounded(sr, grainSizeMs) ==
    jmax(1, TruncDiv(2 * grainSizeMs * sr + 10000, 20000))

\* the grain duration: jmax (1, (int) ((grainSizeMs / 1000) * sr)),
\* grainSizeMs in tenths of a millisecond
GrainDuration(sr, grainSizeMs) ==
    jmax(1, TruncDiv(grainSizeMs * sr, 10000))

\* the start position without the two buffer lengths added before the modulo
StartPos_NoOffset(cb, position, posScatter, rnd) ==
    LET bufLen         == cb.activeSamples * PosDen
        lookbackAmount == TruncDiv(position * bufLen, 1000)
        scatterRange   == TruncDiv(posScatter * bufLen, 2000)
        randomOffset   == TruncDiv(rnd * scatterRange, 2)
        rawPos         == cb.writePos * PosDen - lookbackAmount + randomOffset
    IN  Fmod(rawPos, bufLen)

\* the start position, in 1/PosDen samples: position and posScatter count
\* tenths of a percent, rnd is random.nextFloat() * 2 - 1 in halves
StartPos(cb, position, posScatter, rnd) ==
    LET bufLen         == cb.activeSamples * PosDen
        lookbackAmount == TruncDiv(position * bufLen, 1000)
        scatterRange   == TruncDiv(posScatter * bufLen, 2000)
        randomOffset   == TruncDiv(rnd * scatterRange, 2)
        rawPos         == cb.writePos * PosDen - lookbackAmount + randomOffset
    IN  Fmod(rawPos + bufLen * 2, bufLen)

\* std::pow (2.0f, totalPitch / 12.0f) in 1/PosDen, for whole octaves
PlaybackRate(totalPitch) ==
    LET oct == TruncDiv(totalPitch, 12)
    IN  IF oct >= 0 THEN PosDen * (2 ^ oct) ELSE TruncDiv(PosDen, 2 ^ (- oct))

\* whether this GrainScheduler::process call reaches the spawn attempt
SpawnDue(sch) ==
    sch.samplesUntilNextGrain - 1 <= 0

\* the grain GrainScheduler::process configures after a successful acquire.
\* p holds the arguments of the call: grainSizeMs, density, position,
\* posScatter, pitch, pitchScatter, pan, panScatter, attackFrac, decayFrac,
\* envShape, reverse; r the three draws of random (pos, pitch, pan)
SpawnGrain(sch, cb, g, p, r) ==
    [g EXCEPT
        !.lengthSamples = GrainDuration(sch.sr, p.grainSizeMs),
        !.startPos      = StartPos(cb, p.position, p.posScatter, r.pos),
        !.playbackRate  = PlaybackRate(p.pitch + TruncDiv(r.pitch * p.pitchScatter * 12, 2000)),
        !.pan           = jlimit(-100, 100, p.pan + TruncDiv(r.pan * p.panScatter, 20)),
        !.attackFrac    = p.attackFrac,
        !.decayFrac     = p.decayFrac,
        !.envShape      = p.envShape,
        !.reversed      = p.reverse,
        !.currentSample = 0,
        !.gain          = 1]

\* the countdown tested before it is decremented
GrainScheduler_process_sched_TestFirst(sch, grains, p) ==
    IF sch.samplesUntilNextGrain <= 0
    THEN [sch EXCEPT !.samplesUntilNextGrain = IntervalSamples(sch.sr, p.density)]
    ELSE [sch EXCEPT !.samplesUntilNextGrain = sch.samplesUntilNextGrain - 1]

\* the return on an exhausted pool taken before the countdown is set again
GrainScheduler_process_sched_NoResetWhenFull(sch, grains, p) ==
    IF SpawnDue(sch) /\ FirstFree(grains) # 0
    THEN [sch EXCEPT !.samplesUntilNextGrain = IntervalSamples(sch.sr, p.density)]
    ELSE [sch EXCEPT !.samplesUntilNextGrain = sch.samplesUntilNextGrain - 1]

\* GrainScheduler::process: the scheduler after the call
GrainScheduler_process_sched(sch, grains, p) ==
    IF SpawnDue(sch)
    THEN [sch EXCEPT !.samplesUntilNextGrain = IntervalSamples(sch.sr, p.density)]
    ELSE [sch EXCEPT !.samplesUntilNextGrain = sch.samplesUntilNextGrain - 1]

\* GrainScheduler::process: the grains of the pool after the call
GrainScheduler_process_pool(sch, grains, cb, p, r) ==
    IF ~ SpawnDue(sch)
    THEN grains
    ELSE LET i        == FirstFree(grains)
             acquired == acquire(grains)
         IN  IF i = 0
             THEN acquired
             ELSE [acquired EXCEPT ![i] = SpawnGrain(sch, cb, acquired[i], p, r)]

----------------------------------------------------------------------------
(* LFOModulator.  The phase counts 1/(100 * sr) of a cycle, so that a step  *)
(* of rate / sr with the rate in hundredths of a Hz is the integer rate.    *)
(* The value of the LFO counts thousandths.                                 *)

\* the count of phase units in one cycle
PhaseDen(l) == 100 * l.sr

\* the LFOModulator after construction
LFOModulator_new ==
    [sr |-> 44100, phase |-> 0, currentSHValue |-> 0, shTriggered |-> FALSE]

\* LFOModulator::prepare
LFOModulator_prepare(l, sampleRate) ==
    [l EXCEPT !.sr = sampleRate, !.phase = 0, !.currentSHValue = 0]

\* LFOModulator::reset
LFOModulator_reset(l) ==
    [l EXCEPT !.phase = 0, !.currentSHValue = 0, !.shTriggered = FALSE]

\* the phase advance with the wrap tested against more than a whole cycle
LFOModulator_advance_WrapLate(l, rate) ==
    LET phase == l.phase + rate
    IN  IF phase > PhaseDen(l)
        THEN [l EXCEPT !.phase = phase - PhaseDen(l), !.shTriggered = TRUE]
        ELSE [l EXCEPT !.phase = phase]

\* LFOModulator::process, the phase advance: rate in hundredths of a Hz
LFOModulator_advance(l, rate) ==
    LET phase == l.phase + rate
    IN  IF phase >= PhaseDen(l)
        THEN [l EXCEPT !.phase = phase - PhaseDen(l), !.shTriggered = TRUE]
        ELSE [l EXCEPT !.phase = phase]

\* std::sin (phase * twoPi) in thousandths, by the rational approximation
\* sin (pi x) = 16 x (1 - x) / (5 - 4 x (1 - x)) on each half cycle; the
\* sign and the zeros are those of the sine
SinePhase(n, d) ==
    LET a == IF 2 * n < d THEN 2 * n ELSE 2 * n - d
        x == TruncDiv(1000 * a, d)
        q == x * (1000 - x)
        v == TruncDiv(16 * q, 5000 - TruncDiv(4 * q, 1000))
    IN  IF 2 * n < d THEN v ELSE - v

\* 2 * abs (2 * phase - 1) - 1 in thousandths
TrianglePhase(n, d) ==
    LET m == IF 2 * n - d >= 0 THEN 2 * n - d ELSE d - 2 * n
    IN  TruncDiv(1000 * (2 * m - d), d)

\* LFOModulator::process, the LFO after the call: rnd is
\* random.nextFloat() * 2 - 1 in thousandths
LFOModulator_process(l, rate, shape, rnd) ==
    LET l1 == LFOModulator_advance(l, rate)
    IN  IF shape = "SampleAndHold" /\ l1.shTriggered
        THEN [l1 EXCEPT !.currentSHValue = rnd, !.shTriggered = FALSE]
        ELSE l1

\* LFOModulator::process, the value returned, in thousandths
LFOModulator_value(l, rate, shape, rnd) ==
    LET l1 == LFOModulator_process(l, rate, shape, rnd)
    IN  CASE shape = "Sine"          -> SinePhase(l1.phase, PhaseDen(l1))
          [] shape = "Triangle"      -> TrianglePhase(l1.phase, PhaseDen(l1))
          [] shape = "Square"        -> IF 2 * l1.phase < PhaseDen(l1)
                                        THEN 1000 ELSE -1000
          [] shape = "SampleAndHold" -> l1.currentSHValue

----------------------------------------------------------------------------
(* PostProcessor, one channel.  The three juce::dsp::StateVariableTPTFilter *)
(* objects are library code: the model keeps of them only whether they hold *)
(* history (filtersClear), and takes the signal they produce as an input.   *)
(* The DC blocker and the shimmer delay line are computed, in the unit of   *)
(* the samples.                                                             *)

\* the PostProcessor after construction
PostProcessor_new ==
    [ sampleRate          |-> 44100,
      numChannels         |-> 2,
      dcBlockerX          |-> << >>,
      dcBlockerY          |-> << >>,
      shimmerBuffer       |-> << >>,
      shimmerWritePos     |-> 0,
      shimmerDelaySamples |-> 0,
      filtersClear        |-> TRUE ]

\* std::vector::resize (n, 0.0f): the elements kept, the new ones 0
ResizeZero(v, n) ==
    [ch \in 1..n |-> IF ch <= Len(v) THEN v[ch] ELSE 0]

\* PostProcessor::prepare
PostProcessor_prepare(pp, sampleRate, numChannels) ==
    LET delay == TruncDiv(sampleRate * 3, 10)
    IN  [ sampleRate          |-> sampleRate,
          numChannels         |-> numChannels,
          dcBlockerX          |-> ResizeZero(pp.dcBlockerX, numChannels),
          dcBlockerY          |-> ResizeZero(pp.dcBlockerY, numChannels),
          shimmerBuffer       |-> [i \in 0..(delay + 3) |-> 0],
          shimmerWritePos     |-> 0,
          shimmerDelaySamples |-> delay,
          filtersClear        |-> TRUE ]

\* PostProcessor::reset
PostProcessor_reset(pp) ==
    [pp EXCEPT !.filtersClear    = TRUE,
               !.shimmerBuffer   = [i \in DOMAIN pp.shimmerBuffer |-> 0],
               !.shimmerWritePos = 0,
               !.dcBlockerX      = [ch \in DOMAIN pp.dcBlockerX |-> 0],
               !.dcBlockerY      = [ch \in DOMAIN pp.dcBlockerY |-> 0]]

\* PostProcessor::applyDCBlocker on channel 0, samples s..Len(data):
\* y = x - xPrev + R * yPrev with R = 0.995; the result is << xPrev, yPrev >>
RECURSIVE DCBlocker(_, _, _, _)
DCBlocker(data, s, xPrev, yPrev) ==
    IF s > Len(data)
    THEN <<xPrev, yPrev>>
    ELSE LET x == data[s]
             y == x - xPrev + TruncDiv(995 * yPrev, 1000)
         IN  DCBlocker(data, s + 1, x, y)

\* the shimmer sample read for the current write position: linear
\* interpolation at writePos - delay / 2, wrapped
ShimmerRead(pp) ==
    LET delay   == pp.shimmerDelaySamples
        readPos == 2 * pp.shimmerWritePos - delay
        wrapped == IF readPos < 0 THEN readPos + 2 * delay ELSE readPos
        idx0    == CMod(TruncDiv(wrapped, 2), delay)
        idx1    == CMod(idx0 + 1, delay)
        s0      == pp.shimmerBuffer[idx0]
        s1      == pp.shimmerBuffer[idx1]
    IN  s0 + TruncDiv(CMod(wrapped, 2) * (s1 - s0), 2)

\* the shimmer loop on channel 0, samples s..Len(data): the delay line takes
\* current * 0.7 + shimSample * shimMix * 0.2; shimmerAmount in percent
RECURSIVE ShimmerLoop(_, _, _, _)
ShimmerLoop(pp, data, s, shimmerAmount) ==
    IF s > Len(data)
    THEN pp
    ELSE LET shimSample == ShimmerRead(pp)
             stored     == TruncDiv(data[s] * 7, 10)
                               + TruncDiv(shimSample * shimmerAmount * 2, 1000)
         IN  ShimmerLoop(
                 [pp EXCEPT !.shimmerBuffer[pp.shimmerWritePos] = stored,
                            !.shimmerWritePos =
                                CMod(pp.shimmerWritePos + 1, pp.shimmerDelaySamples)],
                 data, s + 1, shimmerAmount)

\* PostProcessor::process, the post-processor after the call: grainOutput is
\* the block it is given, filtered the signal the two filters make of it
PostProcessor_process(pp, grainOutput, filtered, shimmerAmount) ==
    LET dc  == IF Len(pp.dcBlockerX) >= 1
               THEN DCBlocker(grainOutput, 1, pp.dcBlockerX[1], pp.dcBlockerY[1])
               ELSE << >>
        pp1 == IF Len(pp.dcBlockerX) >= 1
               THEN [pp EXCEPT !.dcBlockerX[1] = dc[1], !.dcBlockerY[1] = dc[2],
                               !.filtersClear = FALSE]
               ELSE [pp EXCEPT !.filtersClear = FALSE]
    IN  IF shimmerAmount > 0 /\ pp.shimmerDelaySamples > 0
        THEN ShimmerLoop(pp1, filtered, 1, shimmerAmount)
        ELSE pp1

----------------------------------------------------------------------------
(* GrainVisualData and std::atomic<GrainVisualData> visualData.  The        *)
(* snapshot keeps, of each grain, the active flag, the normalised position  *)
(* and size in thousandths and the pan; the envelope and the pitch, float   *)
(* functions of the same grain, are not kept.  GrainVisualData holds 64     *)
(* GrainInfo and three scalars, far more than a lock-free atomic can hold:  *)
(* store and load copy it under the lock of the atomic object, here in two  *)
(* parts, the grains and then the scalars.                                  *)

\* GrainVisualData after construction
GrainVisualData_new ==
    [ grains      |-> [i \in 1..kMaxGrains |->
                         [active |-> FALSE, normPosition |-> 0, pan |-> 0, size |-> 0]],
      activeCount |-> 0,
      inputLevel  |-> 0,
      outputLevel |-> 0 ]

\* the GrainInfo GranularEngine::updateVisualData makes of the grain g
GrainInfo(g, cb, sr) ==
    LET bufLen  == getActiveLength(cb) * PosDen
        maxSize == kMaxGrainSizeMs * sr
    IN  IF g.active
        THEN [ active       |-> TRUE,
               normPosition |-> IF bufLen > 0
                                THEN TruncDiv(1000 * Fmod(getReadPosition(g), bufLen),
                                              bufLen)
                                ELSE 0,
               pan          |-> g.pan,
               size         |-> IF maxSize > 0
                                THEN TruncDiv(1000 * 10000 * g.lengthSamples, maxSize)
                                ELSE 0 ]
        ELSE [active |-> FALSE, normPosition |-> 0, pan |-> 0, size |-> 0]

\* the count of active grains among the first n
RECURSIVE CountActive(_, _)
CountActive(grains, n) ==
    IF n = 0
    THEN 0
    ELSE CountActive(grains, n - 1) + (IF grains[n].active THEN 1 ELSE 0)

\* the data GranularEngine::updateVisualData stores
SnapshotOf(grains, cb, sr, inLevel, outLevel) ==
    [ grains      |-> [i \in 1..kMaxGrains |-> GrainInfo(grains[i], cb, sr)],
      activeCount |-> CountActive(grains, kMaxGrains),
      inputLevel  |-> inLevel,
      outputLevel |-> outLevel ]

\* visualData and the two threads after construction.  value: the content of
\* the atomic; lock: the holder of its lock; audio, ui: where each thread is
\* in its store or load, and the copy it holds
VisualData_new ==
    [ value |-> GrainVisualData_new,
      lock  |-> "free",
      audio |-> [pc |-> "idle", data |-> GrainVisualData_new],
      ui    |-> [pc |-> "idle", data |-> GrainVisualData_new] ]

\* visualData.store (data) run to its end with no other thread in between
StoreWhole(vd, data) ==
    [vd EXCEPT !.value = data]

\* the lock of the atomic object is granted when no thread holds it; a
\* thread that asks for it while the other holds it waits
LockGranted(vd) ==
    vd.lock = "free"

----------------------------------------------------------------------------
(* GranularEngine, one channel.  The model keeps the buffer, the pool, the  *)
(* scheduler, the recorded write positions, the LFO, the post-processor and *)
(* the published snapshot.  Three signals are float functions the model     *)
(* does not compute and takes as inputs of the block: the grain mix of a    *)
(* sample on which a grain is active (envelope, pan and interpolation), the *)
(* signal after the two filters of the post-processor, and grainOutput      *)
(* after postProcessor.process.  The dry/wet blend and the output level     *)
(* change the buffer of the host and two smoothers, which are not kept.     *)

\* GranularEngine::prepare: writePositions.resize (samplesPerBlock, 0)
GranularEngine_prepare_writePositions(samplesPerBlock) ==
    [s \in 1..samplesPerBlock |-> 0]

\* writePositions.resize (numSamples, 0) when it is shorter than the block
ResizeWritePositions(wp, numSamples) ==
    IF Len(wp) < numSamples
    THEN [s \in 1..numSamples |-> IF s <= Len(wp) THEN wp[s] ELSE 0]
    ELSE wp

\* lfoValue: lfo.process (lfoRate, lfoShape) * (lfoDepth / 100), in
\* thousandths; lfoDepth in percent
LfoValue(l, blk, s) ==
    TruncDiv(LFOModulator_value(l, blk.lfoRate, blk.lfoShape, blk.random[s].lfo)
                 * blk.lfoDepth, 100)

\* the switch on the LFO target without the two limits after it
ModulatedParams_Unclamped(p, lfoValue, lfoTarget) ==
    [p EXCEPT
        !.grainSizeMs = IF lfoTarget = "Size"
                        THEN TruncDiv(p.grainSizeMs * (2000 + lfoValue), 2000)
                        ELSE p.grainSizeMs,
        !.position    = IF lfoTarget = "Position"
                        THEN p.position + TruncDiv(lfoValue * 3, 10)
                        ELSE p.position,
        !.pitch       = IF lfoTarget = "Pitch"
                        THEN p.pitch + TruncDiv(lfoValue * 12, 1000)
                        ELSE p.pitch,
        !.pan         = IF lfoTarget = "Pan"
                        THEN jlimit(-100, 100, p.pan + TruncDiv(lfoValue, 10))
                        ELSE p.pan]

\* the switch on the LFO target with the Position case also moving the pan
ModulatedParams_PositionMovesPan(p, lfoValue, lfoTarget) ==
    [p EXCEPT
        !.grainSizeMs = jlimit(kMinGrainSizeMs, kMaxGrainSizeMs,
                               IF lfoTarget = "Size"
                               THEN TruncDiv(p.grainSizeMs * (2000 + lfoValue), 2000)
                               ELSE p.grainSizeMs),
        !.position    = jlimit(0, 1000,
                               IF lfoTarget = "Position"
                               THEN p.position + TruncDiv(lfoValue * 3, 10)
                               ELSE p.position),
        !.pitch       = IF lfoTarget = "Pitch"
                        THEN p.pitch + TruncDiv(lfoValue * 12, 1000)
                        ELSE p.pitch,
        !.pan         = IF lfoTarget \in {"Pan", "Position"}
                        THEN jlimit(-100, 100, p.pan + TruncDiv(lfoValue, 10))
                        ELSE p.pan]

\* the arguments the per-sample loop passes to GrainScheduler::process: the
\* block values p, the one the LFO target selects moved by lfoValue
\* (grain size * (1 + lfoValue * 0.5), position + lfoValue * 30,
\* pitch + lfoValue * 12, pan + lfoValue limited to -1..1), then the size
\* and the position limited to their ranges
ModulatedParams(p, lfoValue, lfoTarget) ==
    [p EXCEPT
        !.grainSizeMs = jlimit(kMinGrainSizeMs, kMaxGrainSizeMs,
                               IF lfoTarget = "Size"
                               THEN TruncDiv(p.grainSizeMs * (2000 + lfoValue), 2000)
                               ELSE p.grainSizeMs),
        !.position    = jlimit(0, 1000,
                               IF lfoTarget = "Position"
                               THEN p.position + TruncDiv(lfoValue * 3, 10)
                               ELSE p.position),
        !.pitch       = IF lfoTarget = "Pitch"
                        THEN p.pitch + TruncDiv(lfoValue * 12, 1000)
                        ELSE p.pitch,
        !.pan         = IF lfoTarget = "Pan"
                        THEN jlimit(-100, 100, p.pan + TruncDiv(lfoValue, 10))
                        ELSE p.pan]

\* the arguments of GrainScheduler::process on sample s, for the LFO l as it
\* is before the sample
PassedParams(l, blk, s) ==
    ModulatedParams(blk.params, LfoValue(l, blk, s), blk.lfoTarget)

\* the input write of sample s followed by the feedback of the same sample
InputWrite_WithFeedback(cb, blk, s) ==
    writeFeedbackAt(advanceWritePosition(writeSample(cb, 0, blk.input[s])),
                    0, getWritePosition(cb),
                    TruncDiv(blk.output[s] * blk.feedbackAmt, 100))

\* what the per-sample loop does to the circular buffer on sample s:
\* writeSample of the input, then advanceWritePosition
InputWrite(cb, blk, s) ==
    advanceWritePosition(writeSample(cb, 0, blk.input[s]))

\* one pass of the loop with the active grains processed before the
\* scheduler is called, so that a grain is first visited on the sample after
\* the one that spawned it
ProcessSample_GrainsFirst(st, blk, s) ==
    LET wp1    == [st.wp EXCEPT ![s] = getWritePosition(st.cb)]
        cb1    == InputWrite(st.cb, blk, s)
        lfo1   == LFOModulator_process(st.lfo, blk.lfoRate, blk.lfoShape,
                                       blk.random[s].lfo)
        p      == PassedParams(st.lfo, blk, s)
        sch1   == GrainScheduler_process_sched(st.sch, st.grains, p)
        moved  == processAll(st.grains)
        mixL   == IF \E i \in DOMAIN moved : st.grains[i].active
                  THEN blk.mix[s]
                  ELSE 0
    IN  [st EXCEPT !.cb     = cb1,
                   !.grains = GrainScheduler_process_pool(st.sch, moved, cb1, p,
                                                          blk.random[s]),
                   !.sch    = sch1,
                   !.wp     = wp1,
                   !.lfo    = lfo1,
                   !.mix    = Append(st.mix, mixL)]

\* one pass of the per-sample loop of GranularEngine::process, for sample s
\* (1 is the first): st holds the buffer cb, the grains, the scheduler sch,
\* the write positions wp, the LFO lfo and the grain mix of the samples done
\* mix; blk the block: its input samples, the parameters read at its start
\* and, for each sample, the draws of random
ProcessSample(st, blk, s) ==
    LET wp1    == [st.wp EXCEPT ![s] = getWritePosition(st.cb)]
        cb1    == InputWrite(st.cb, blk, s)
        lfo1   == LFOModulator_process(st.lfo, blk.lfoRate, blk.lfoShape,
                                       blk.random[s].lfo)
        p      == PassedParams(st.lfo, blk, s)
        sch1   == GrainScheduler_process_sched(st.sch, st.grains, p)
        spawn  == GrainScheduler_process_pool(st.sch, st.grains, cb1, p, blk.random[s])
        mixL   == IF \E i \in DOMAIN spawn : spawn[i].active
                  THEN blk.mix[s]
                  ELSE 0
    IN  [st EXCEPT !.cb     = cb1,
                   !.grains = processAll(spawn),
                   !.sch    = sch1,
                   !.wp     = wp1,
                   !.lfo    = lfo1,
                   !.mix    = Append(st.mix, mixL)]

\* the per-sample loop over samples s..numSamples.  The state after sample
\* s is drawn from the set that holds it alone, which computes it once
RECURSIVE SampleLoop(_, _, _)
SampleLoop(st, blk, s) ==
    IF s > blk.numSamples
    THEN st
    ELSE CHOOSE end \in { SampleLoop(next, blk, s + 1) :
                              next \in {ProcessSample(st, blk, s)} } : TRUE

\* the states before each sample of a loop that takes the freeze flag and
\* the buffer length from the parameters again before every sample
RECURSIVE SampleStates_ReadsParams(_, _, _)
SampleStates_ReadsParams(st, blk, s) ==
    IF s > blk.numSamples
    THEN << >>
    ELSE LET now == [st EXCEPT
                        !.cb = setFrozen(
                                   setBufferLength(st.cb, blk.later[s].bufLenSec),
                                   blk.later[s].freezeOn)]
         IN  CHOOSE all \in { <<n1>> \o SampleStates_ReadsParams(next, blk, s + 1) :
                                  n1 \in {now},
                                  next \in {ProcessSample(now, blk, s)} } : TRUE

\* the states the per-sample loop is in before each of the samples
\* s..numSamples, as a sequence
RECURSIVE SampleStates(_, _, _)
SampleStates(st, blk, s) ==
    IF s > blk.numSamples
    THEN << >>
    ELSE CHOOSE all \in { <<st>> \o SampleStates(next, blk, s + 1) :
                              next \in {ProcessSample(st, blk, s)} } : TRUE

\* the test that enables the feedback write-back: feedbackAmt > 0.001f, the
\* amount in hundredths
FeedbackEnabled(feedbackAmt) ==
    feedbackAmt * 10 > 1

\* the write head after the block taken as the position of every sample
FeedbackPosition_WriteHead(cb, wp, s) ==
    cb.writePos

\* fbPos of sample s: the position recorded for it
FeedbackPosition(cb, wp, s) ==
    wp[s]

\* feedbackAmt as GranularEngine::process takes it from the parameter, in
\* hundredths
FeedbackAmount(blk) ==
    blk.feedbackAmt

\* fbSample: grainOutput.getSample (ch, s) * feedbackAmt
FeedbackSample(out, feedbackAmt) ==
    TruncDiv(out * feedbackAmt, 100)

\* the feedback loop over samples s..numSamples
RECURSIVE FeedbackLoop(_, _, _, _)
FeedbackLoop(cb, wp, blk, s) ==
    IF s > blk.numSamples
    THEN cb
    ELSE FeedbackLoop(
             writeFeedbackAt(cb, 0, FeedbackPosition(cb, wp, s),
                             FeedbackSample(blk.output[s], FeedbackAmount(blk))),
             wp, blk, s + 1)

\* the mix written back at full level whatever the feedback amount
FeedbackPass_Unscaled(cb, wp, blk) ==
    FeedbackLoop(cb, wp, [blk EXCEPT !.feedbackAmt = 100], 1)

\* the feedback write-back of GranularEngine::process
FeedbackPass(cb, wp, blk) ==
    IF FeedbackEnabled(FeedbackAmount(blk))
    THEN FeedbackLoop(cb, wp, blk, 1)
    ELSE cb

\* process publishing the snapshot of the grains as they are when the call
\* starts
GranularEngine_process_SnapshotFirst(st, blk) ==
    LET cb0  == setFrozen(setBufferLength(st.cb, blk.bufLenSec), blk.freezeOn)
        st0  == [st EXCEPT !.cb  = cb0,
                           !.wp  = ResizeWritePositions(st.wp, blk.numSamples),
                           !.mix = << >>]
        After(st1) ==
            LET pp1  == PostProcessor_process(st1.pp, st1.mix, blk.filtered,
                                              blk.shimmerAmt)
                cb2  == FeedbackPass(st1.cb, st1.wp, blk)
                data == SnapshotOf(st.grains, cb2, st1.sch.sr,
                                   blk.inLevel, blk.outLevel)
            IN  [st1 EXCEPT !.cb = cb2, !.pp = pp1,
                            !.vd = StoreWhole(st1.vd, data)]
    IN  CHOOSE end \in { After(st1) : st1 \in {SampleLoop(st0, blk, 1)} } : TRUE

\* GranularEngine::process on the state st, run with no other thread in
\* between.  blk holds the values the parameters have when the call reads
\* them: bufLenSec in tenths of a second, freezeOn, feedbackAmt in
\* hundredths, shimmerAmt in percent, the LFO rate, depth, shape and
\* target; and inLevel and outLevel, the levels measured
GranularEngine_process(st, blk) ==
    LET cb0  == setFrozen(setBufferLength(st.cb, blk.bufLenSec), blk.freezeOn)
        st0  == [st EXCEPT !.cb  = cb0,
                           !.wp  = ResizeWritePositions(st.wp, blk.numSamples),
                           !.mix = << >>]
        After(st1) ==
            LET pp1  == PostProcessor_process(st1.pp, st1.mix, blk.filtered,
                                              blk.shimmerAmt)
                cb2  == FeedbackPass(st1.cb, st1.wp, blk)
                data == SnapshotOf(st1.grains, cb2, st1.sch.sr,
                                   blk.inLevel, blk.outLevel)
            IN  [st1 EXCEPT !.cb = cb2, !.pp = pp1,
                            !.vd = StoreWhole(st1.vd, data)]
    IN  CHOOSE end \in { After(st1) : st1 \in {SampleLoop(st0, blk, 1)} } : TRUE

\* GranularEngine::prepare on the state st
GranularEngine_prepare(st, sampleRate, samplesPerBlock, numChannels) ==
    [ cb     |-> CircularBuffer_prepare(sampleRate, numChannels, kMaxBufferSeconds),
      sch    |-> GrainScheduler_reset(GrainScheduler_prepare(sampleRate)),
      lfo    |-> LFOModulator_reset(LFOModulator_prepare(st.lfo, sampleRate)),
      pp     |-> PostProcessor_prepare(st.pp, sampleRate, numChannels),
      wp     |-> GranularEngine_prepare_writePositions(samplesPerBlock),
      grains |-> resetAll(st.grains),
      vd     |-> st.vd,
      mix    |-> << >> ]

\* reset that leaves the LFO as it is
GranularEngine_reset_KeepLfo(st) ==
    [st EXCEPT !.grains = resetAll(st.grains),
               !.sch    = GrainScheduler_reset(st.sch),
               !.pp     = PostProcessor_reset(st.pp)]

\* GranularEngine::reset on the state st
GranularEngine_reset(st) ==
    [st EXCEPT !.grains = resetAll(st.grains),
               !.sch    = GrainScheduler_reset(st.sch),
               !.lfo    = LFOModulator_reset(st.lfo),
               !.pp     = PostProcessor_reset(st.pp)]

----------------------------------------------------------------------------
(* Values shared by the specifications *)

\* the arguments GranularEngine::process passes to GrainScheduler::process
\* with the parameters at their defaults (ParameterLayout.cpp)
DefaultParams ==
    [ grainSizeMs  |-> 1000,
      density      |-> 80,
      position     |-> 500,
      posScatter   |-> 0,
      pitch        |-> 0,
      pitchScatter |-> 0,
      pan          |-> 0,
      panScatter   |-> 0,
      attackFrac   |-> 250,
      decayFrac    |-> 250,
      envShape     |-> "Hanning",
      reverse      |-> FALSE ]

\* a block of n samples with every parameter at its default
\* (ParameterLayout.cpp) and no draw of random away from the middle.  later
\* holds, for each sample, the freeze flag and the buffer length the
\* parameters have when that sample is processed
DefaultBlock(n) ==
    [ numSamples  |-> n,
      input       |-> [s \in 1..n |-> 100 * s],
      mix         |-> [s \in 1..n |-> 60 + 10 * s],
      filtered    |-> [s \in 1..n |-> 40 + 10 * s],
      output      |-> [s \in 1..n |-> -100 * (s + 1)],
      random      |-> [s \in 1..n |-> [pos |-> 0, pitch |-> 0, pan |-> 0, lfo |-> 0]],
      bufLenSec   |-> 40,
      freezeOn    |-> FALSE,
      later       |-> [s \in 1..n |-> [freezeOn |-> FALSE, bufLenSec |-> 40]],
      feedbackAmt |-> 0,
      shimmerAmt  |-> 0,
      lfoRate     |-> 100,
      lfoDepth    |-> 0,
      lfoShape    |-> "Sine",
      lfoTarget   |-> "Position",
      inLevel     |-> 10,
      outLevel    |-> 20,
      params      |-> DefaultParams ]

\* the block b with the freeze flag frz and the buffer length len, in
\* tenths of a second, for the whole of the block
WithBuffer(b, frz, len) ==
    [b EXCEPT !.freezeOn  = frz,
              !.bufLenSec = len,
              !.later     = [s \in 1..b.numSamples |->
                                [freezeOn |-> frz, bufLenSec |-> len]]]

----------------------------------------------------------------------------
(* SpecBuf: a CircularBuffer and the calls of its interface *)

\* the prepare calls: << sampleRate, maxLengthSeconds in tenths >>
BufPrepares == {<<3, 10>>}

\* lengthSeconds of setBufferLength in tenths: negative, zero, 1, 2 and 3
\* samples at rate 3, and more than the maximum
BufLengths == {-5, 0, 4, 7, 10, 20}

\* the samples written
BufSamples == {1, 2}

\* the feedback samples added
BufFeedbacks == {1}

\* the feedback sum is kept within -MaxAbsSample..MaxAbsSample
MaxAbsSample == 2

\* the positions given to writeFeedbackAt: negative and beyond the length
BufFeedbackPositions(cb) ==
    {- cb.maxSamples - 1, -1, 0, 1, 2 * cb.maxSamples - 1}

\* the positions read, in 1/PosDen samples: negative and beyond the length
ReadPositions(cb) == (- 2 * cb.maxSamples * PosDen)..(2 * cb.maxSamples * PosDen)

\* the samples a reader gets at every position
Reads(cb) == [p \in ReadPositions(cb) |-> readSample(cb, 0, p)]

\* history of SpecBuf.  snap: the buffer when the freeze began.  lastWritten:
\* the sample most recently stored by writeSample at each index;
\* noFeedback: writeFeedbackAt has not been called.  shrunk: setBufferLength
\* has lowered the active length since prepare or the last
\* advanceWritePosition call that moved the write position
BufHist0(cb) ==
    [ snap        |-> [frozen |-> FALSE],
      lastWritten |-> cb.buffer,
      noFeedback  |-> TRUE,
      shrunk      |-> FALSE ]

InitBuf ==
    /\ \E pr \in BufPrepares :
          /\ circularBuffer = CircularBuffer_prepare(pr[1], 1, pr[2])
          /\ scheduler = GrainScheduler_prepare(pr[1])
    /\ pool = GrainPool_new
    /\ writePositions = << >>
    /\ op = [name |-> "prepare"]
    /\ hist = BufHist0(circularBuffer)
    /\ lfo = LFOModulator_new
    /\ postProcessor = PostProcessor_new
    /\ visualData = VisualData_new

BufSetBufferLength(l) ==
    /\ circularBuffer' = setBufferLength(circularBuffer, l)
    /\ op' = [name |-> "setBufferLength", length |-> l,
                writePos |-> getWritePosition(circularBuffer)]
    /\ hist' = [hist EXCEPT !.shrunk =
                  \/ hist.shrunk
                  \/ circularBuffer'.activeSamples < circularBuffer.activeSamples]
    /\ UNCHANGED <<pool, scheduler, writePositions>>
    /\ UNCHANGED <<lfo, postProcessor, visualData>>

BufSetFrozen(b) ==
    /\ circularBuffer' = setFrozen(circularBuffer, b)
    /\ op' = [name |-> "setFrozen"]
    /\ hist' = [hist EXCEPT !.snap =
                  IF ~ b THEN [frozen |-> FALSE]
                  ELSE IF circularBuffer.frozen THEN hist.snap
                  ELSE [ frozen        |-> TRUE,
                         buffer        |-> circularBuffer.buffer,
                         writePos      |-> circularBuffer.writePos,
                         activeSamples |-> circularBuffer.activeSamples,
                         reads         |-> Reads(circularBuffer) ]]
    /\ UNCHANGED <<pool, scheduler, writePositions>>
    /\ UNCHANGED <<lfo, postProcessor, visualData>>

BufWriteSample(v) ==
    /\ circularBuffer' = writeSample(circularBuffer, 0, v)
    /\ op' = [name |-> "writeSample", sample |-> v]
    /\ hist' = IF hist.noFeedback /\ ~ circularBuffer.frozen
               THEN [hist EXCEPT !.lastWritten[0]
                        [circularBuffer.writePos % circularBuffer.activeSamples] = v]
               ELSE hist
    /\ UNCHANGED <<pool, scheduler, writePositions>>
    /\ UNCHANGED <<lfo, postProcessor, visualData>>

BufAdvanceWritePosition ==
    /\ circularBuffer' = advanceWritePosition(circularBuffer)
    /\ op' = [name |-> "advanceWritePosition",
                writePos |-> getWritePosition(circularBuffer)]
    /\ hist' = [hist EXCEPT !.shrunk = hist.shrunk /\ circularBuffer.frozen]
    /\ UNCHANGED <<pool, scheduler, writePositions>>
    /\ UNCHANGED <<lfo, postProcessor, visualData>>

BufWriteFeedbackAt(p, v) ==
    /\ circularBuffer' = writeFeedbackAt(circularBuffer, 0, p, v)
    /\ \A i \in 0..(circularBuffer.maxSamples - 1) :
          /\ circularBuffer'.buffer[0][i] <= MaxAbsSample
          /\ circularBuffer'.buffer[0][i] >= - MaxAbsSample
    /\ op' = [ name     |-> "writeFeedbackAt",
               sample   |-> v,
               position |-> p,
               before   |-> circularBuffer ]
    /\ hist' = [hist EXCEPT !.noFeedback = FALSE,
                            !.lastWritten = << >>]
    /\ UNCHANGED <<pool, scheduler, writePositions>>
    /\ UNCHANGED <<lfo, postProcessor, visualData>>

NextBuf ==
    \/ \E l \in BufLengths : BufSetBufferLength(l)
    \/ \E b \in BOOLEAN : BufSetFrozen(b)
    \/ \E v \in BufSamples : BufWriteSample(v)
    \/ BufAdvanceWritePosition
    \/ \E p \in BufFeedbackPositions(circularBuffer), v \in BufFeedbacks :
          BufWriteFeedbackAt(p, v)

SpecBuf == InitBuf /\ [][NextBuf]_vars

----------------------------------------------------------------------------
(* Properties of the CircularBuffer, checked under SpecBuf *)

\* C3: while the buffer is frozen, whatever writeSample, advanceWritePosition
\* and writeFeedbackAt calls were made since the freeze began, every stored
\* sample and the write position are those of the moment the freeze began,
\* and (the active length being the same) a read at any position returns
\* what it returned then.
C3_FrozenBufferUnchanged ==
    circularBuffer.frozen =>
        /\ hist.snap.frozen
        /\ circularBuffer.buffer = hist.snap.buffer
        /\ circularBuffer.writePos = hist.snap.writePos
        /\ circularBuffer.activeSamples = hist.snap.activeSamples =>
              \A p \in ReadPositions(circularBuffer) :
                  readSample(circularBuffer, 0, p) = hist.snap.reads[p]

\* a write of a sample other than the stored one, or a feedback write, was
\* made on a frozen buffer that holds written samples
C3_Witness ==
    /\ circularBuffer.frozen
    /\ circularBuffer.buffer[0][0] # 0
    /\ \/ /\ op.name = "writeSample"
          /\ op.sample # circularBuffer.buffer[0][WriteIndex(circularBuffer)]
       \/ op.name = "writeFeedbackAt"

\* C6: when no writeFeedbackAt call was made, reading at a non-negative
\* integer position i returns exactly the sample most recently written at
\* index i mod activeSamples (0, the cleared value, if none was).
C6_IntegerReadIsLastWritten ==
    hist.noFeedback =>
        \A i \in 0..(3 * circularBuffer.maxSamples) :
            readSample(circularBuffer, 0, i * PosDen)
                = HermDen * hist.lastWritten[0][i % circularBuffer.activeSamples]

\* samples were written around a buffer shorter than its maximum, the last
\* write replacing a different sample
C6_Witness ==
    /\ hist.noFeedback
    /\ circularBuffer.activeSamples < circularBuffer.maxSamples
    /\ circularBuffer.activeSamples > 1
    /\ op.name = "writeSample"
    /\ ~ circularBuffer.frozen
    /\ \A i \in 0..(circularBuffer.activeSamples - 1) :
          hist.lastWritten[0][i] # 0
    /\ hist.lastWritten[0][0] # hist.lastWritten[0][1]

\* C7: reading is periodic in the active length: for every position x,
\* negative and fractional ones included, and every integer k, reading at x
\* and at x + k * activeSamples return the same value.
C7_ReadPeriodic ==
    \A x \in ReadPositions(circularBuffer) : \A k \in (-3)..3 :
        readSample(circularBuffer, 0, x)
            = readSample(circularBuffer, 0,
                         x + k * circularBuffer.activeSamples * PosDen)

\* a buffer shorter than its maximum holds different samples, and a read at
\* a negative fractional position interpolates between them
C7_Witness ==
    /\ circularBuffer.activeSamples > 1
    /\ circularBuffer.activeSamples < circularBuffer.maxSamples
    /\ circularBuffer.buffer[0][0] # circularBuffer.buffer[0][1]
    /\ circularBuffer.buffer[0][circularBuffer.maxSamples - 1] # 0
    /\ \E x \in ReadPositions(circularBuffer) :
          /\ x < 0
          /\ x % PosDen # 0
          /\ readSample(circularBuffer, 0, x) # readSample(circularBuffer, 0, x - 1)

\* C11 as stated: in every reachable state of the circular buffer the write
\* position returned by getWritePosition satisfies
\* 0 <= writePos < activeSamples.
C11_Original ==
    /\ 0 <= getWritePosition(circularBuffer)
    /\ getWritePosition(circularBuffer) < getActiveLength(circularBuffer)

\* C11 as amended: the write position satisfies 0 <= writePos < maxSamples
\* in every reachable state, and writePos < activeSamples unless
\* setBufferLength has lowered the active length since the last
\* advanceWritePosition call made on a buffer that was not frozen; after
\* such a call writePos < activeSamples again, and the index writeSample
\* stores at is below activeSamples in every state.
C11_Amended ==
    /\ 0 <= getWritePosition(circularBuffer)
    /\ getWritePosition(circularBuffer) < circularBuffer.maxSamples
    /\ ~ hist.shrunk =>
          getWritePosition(circularBuffer) < getActiveLength(circularBuffer)
    /\ WriteIndex(circularBuffer) \in 0..(getActiveLength(circularBuffer) - 1)

\* the length was lowered to the write position or below and the write
\* position was then advanced, on a buffer that was not frozen, back below
\* the active length
C11_Witness ==
    /\ op.name = "advanceWritePosition"
    /\ ~ circularBuffer.frozen
    /\ ~ hist.shrunk
    /\ op.writePos >= getActiveLength(circularBuffer)
    /\ getActiveLength(circularBuffer) > 1
    /\ getWritePosition(circularBuffer) = getActiveLength(circularBuffer) - 1

\* C12: after prepare and after every setBufferLength call, whatever length
\* was requested, and in every later state, activeSamples is within
\* 1..maxSamples.
C12_ActiveLengthInRange ==
    /\ 1 <= getActiveLength(circularBuffer)
    /\ getActiveLength(circularBuffer) <= circularBuffer.maxSamples

\* setBufferLength was called with a length that is zero, negative or above
\* the maximum, while the write head was beyond the start of the buffer
C12_Witness ==
    /\ op.name = "setBufferLength"
    /\ \/ op.length <= 0
       \/ TruncDiv(circularBuffer.sr * op.length, 10) > circularBuffer.maxSamples
    /\ op.writePos > 0
    /\ getActiveLength(circularBuffer) \in {1, circularBuffer.maxSamples}

----------------------------------------------------------------------------
(* SpecPool: a GrainPool, its grains and a GrainScheduler, under the calls *)
(* of their interfaces in any order                                        *)

\* the arguments of GrainScheduler::prepare
PoolPrepare == [sampleRate |-> 1000]

\* grainSizeMs in tenths of a millisecond: 1 and 2 samples at that rate
PoolGrainSizes == {5, 25}

\* density in tenths of a grain per second: an interval of 1 and of 3 samples
PoolDensities == {10000, 3000}

\* the slots Grain::advance is called on directly
AdvanceSlots == {1, kMaxGrains}

\* what this GrainScheduler::process call does, told from the state before it
SchedOp(sch, grains, p) ==
    LET due == sch.samplesUntilNextGrain - 1 <= 0
        full == \A i \in DOMAIN grains : grains[i].active
    IN  [ name         |-> "GrainScheduler::process",
          attempt      |-> due,
          dropped      |-> due /\ full,
          interval     |-> (sch.sr * 10) \div (IF p.density < 1 THEN 1 ELSE p.density),
          gap          |-> hist.sinceAttempt + 1,
          prevDropped  |-> hist.lastDropped,
          prevInterval |-> hist.lastInterval,
          slot         |-> IF due /\ ~ full
                           THEN CHOOSE i \in DOMAIN grains :
                                    /\ ~ grains[i].active
                                    /\ \A j \in 1..(i - 1) : grains[j].active
                           ELSE 0,
          grainSizeMs  |-> IF due /\ ~ full THEN p.grainSizeMs ELSE 0,
          changed      |-> FALSE ]

\* the calls made on the pool, the grains and the scheduler are counted up
\* to MaxPoolCalls
MaxPoolCalls == 6

\* the acquire calls that begin a run, before the counted calls
PoolWarmups == {0, 1, kMaxGrains - 2, kMaxGrains - 1, kMaxGrains}

\* history of SpecPool.  warmup: the acquire calls still to make before the
\* counted calls; calls: the calls counted.  sinceAttempt: the
\* GrainScheduler::process calls made since the last one that reached a spawn
\* attempt; lastDropped: that attempt found the pool exhausted (and the
\* scheduler was not reset since); lastInterval: the interval of that call
PoolHist0 ==
    [ warmup       |-> 0,
      calls        |-> 0,
      sinceAttempt |-> 0,
      lastDropped  |-> FALSE,
      lastInterval |-> 0 ]

InitPool ==
    /\ circularBuffer = CircularBuffer_prepare(2, 1, 10)
    /\ scheduler = GrainScheduler_prepare(PoolPrepare.sampleRate)
    /\ pool = GrainPool_new
    /\ writePositions = << >>
    /\ op = [name |-> "prepare"]
    /\ \E n \in PoolWarmups : hist = [PoolHist0 EXCEPT !.warmup = n]
    /\ lfo = LFOModulator_new
    /\ postProcessor = PostProcessor_new
    /\ visualData = VisualData_new

\* a call may be made: the run is past its first acquire calls, or the call
\* is one of them
MayCall(isAcquire) ==
    IF hist.warmup > 0 THEN isAcquire ELSE hist.calls < MaxPoolCalls

\* one more call is counted
Counted(h) ==
    IF h.warmup > 0
    THEN [h EXCEPT !.warmup = h.warmup - 1]
    ELSE [h EXCEPT !.calls = h.calls + 1]

PoolAcquire ==
    /\ MayCall(TRUE)
    /\ pool' = acquire(pool)
    /\ op' = [ name   |-> "GrainPool::acquire",
               slot   |-> FirstFree(pool),
               before |-> pool ]
    /\ hist' = Counted(hist)
    /\ UNCHANGED <<circularBuffer, scheduler, writePositions>>
    /\ UNCHANGED <<lfo, postProcessor, visualData>>

PoolResetAll ==
    /\ MayCall(FALSE)
    /\ pool' = resetAll(pool)
    /\ op' = [name |-> "GrainPool::resetAll"]
    /\ hist' = Counted(hist)
    /\ UNCHANGED <<circularBuffer, scheduler, writePositions>>
    /\ UNCHANGED <<lfo, postProcessor, visualData>>

PoolProcessAll ==
    /\ MayCall(FALSE)
    /\ pool' = processAll(pool)
    /\ op' = [name |-> "GrainPool::processAll"]
    /\ hist' = Counted(hist)
    /\ UNCHANGED <<circularBuffer, scheduler, writePositions>>
    /\ UNCHANGED <<lfo, postProcessor, visualData>>

GrainAdvance(i) ==
    /\ MayCall(FALSE)
    /\ pool' = [pool EXCEPT ![i] = Grain_advance(pool[i])]
    /\ op' = [ name   |-> "Grain::advance",
               slot   |-> i,
               before |-> pool[i],
               result |-> Grain_advance_result(pool[i]) ]
    /\ hist' = Counted(hist)
    /\ UNCHANGED <<circularBuffer, scheduler, writePositions>>
    /\ UNCHANGED <<lfo, postProcessor, visualData>>

SchedulerProcess(p, r) ==
    /\ MayCall(FALSE)
    /\ scheduler' = GrainScheduler_process_sched(scheduler, pool, p)
    /\ pool' = GrainScheduler_process_pool(scheduler, pool, circularBuffer, p, r)
    /\ op' = [SchedOp(scheduler, pool, p) EXCEPT !.changed = pool' # pool]
    /\ hist' = IF op'.attempt
               THEN [Counted(hist) EXCEPT !.sinceAttempt = 0,
                                          !.lastDropped  = op'.dropped,
                                          !.lastInterval = op'.interval]
               ELSE [Counted(hist) EXCEPT !.sinceAttempt = hist.sinceAttempt + 1]
    /\ UNCHANGED <<circularBuffer, writePositions>>
    /\ UNCHANGED <<lfo, postProcessor, visualData>>

SchedulerReset ==
    /\ MayCall(FALSE)
    /\ scheduler' = GrainScheduler_reset(scheduler)
    /\ op' = [name |-> "GrainScheduler::reset"]
    /\ hist' = [PoolHist0 EXCEPT !.calls = hist.calls + 1]
    /\ UNCHANGED <<circularBuffer, pool, writePositions>>
    /\ UNCHANGED <<lfo, postProcessor, visualData>>

NextPool ==
    \/ PoolAcquire
    \/ PoolResetAll
    \/ PoolProcessAll
    \/ \E i \in AdvanceSlots : GrainAdvance(i)
    \/ \E size \in PoolGrainSizes, dens \in PoolDensities :
          SchedulerProcess([DefaultParams EXCEPT !.grainSizeMs = size,
                                                 !.density = dens],
                           [pos |-> 0, pitch |-> 0, pan |-> 0])
    \/ SchedulerReset

SpecPool == InitPool /\ [][NextPool]_vars

----------------------------------------------------------------------------
(* Properties of the pool, the grains and the scheduler, under SpecPool *)

\* the grains whose active flag is true
ActiveGrains == {i \in DOMAIN pool : pool[i].active}

\* C1: whatever acquire, spawn attempt, advance and reset calls were made,
\* the number of grains whose active flag is true is at most kMaxGrains (64).
C1_AtMostMaxGrainsActive ==
    Cardinality(ActiveGrains) <= kMaxGrains

\* all 64 grains are active and one more was asked for
C1_Witness ==
    /\ Cardinality(ActiveGrains) = kMaxGrains
    /\ \/ op.name = "GrainPool::acquire" /\ op.slot = 0
       \/ op.name = "GrainScheduler::process" /\ op.dropped

\* a grain that is inactive, or active with 0 <= currentSample < lengthSamples
InLife(g) ==
    ~ g.active \/ (0 <= g.currentSample /\ g.currentSample < g.lengthSamples)

\* a grain as GrainPool::acquire leaves a slot that was never used or was
\* reset: active, with currentSample = 0 and lengthSamples = 0
Unsized(g) ==
    g.active /\ g.currentSample = 0 /\ g.lengthSamples = 0

\* C2 as stated: in every reachable state of the pool every grain is inactive
\* or active with 0 <= currentSample < lengthSamples.
C2_Original ==
    \A i \in DOMAIN pool : InLife(pool[i])

\* C2 as amended: every grain is inactive, or active with
\* 0 <= currentSample < lengthSamples, or active with currentSample = 0 and
\* lengthSamples = 0 as GrainPool::acquire left it; the grain a
\* GrainScheduler::process call spawned, the grain a Grain::advance call
\* acted on and every grain after processAll or resetAll is in one of the
\* first two cases.
C2_Amended ==
    /\ \A i \in DOMAIN pool : InLife(pool[i]) \/ Unsized(pool[i])
    /\ op.name = "GrainScheduler::process" /\ op.slot # 0 =>
          /\ InLife(pool[op.slot])
          /\ pool[op.slot].active
    /\ op.name = "Grain::advance" => InLife(pool[op.slot])
    /\ op.name \in {"GrainPool::processAll", "GrainPool::resetAll"} =>
          \A i \in DOMAIN pool : InLife(pool[i])

\* a spawned grain of two samples was advanced once and is in mid-life,
\* beside a grain that acquire left unsized
C2_Witness ==
    /\ op.name = "Grain::advance"
    /\ pool[op.slot].active
    /\ pool[op.slot].currentSample = 1
    /\ pool[op.slot].lengthSamples = 2
    /\ \E i \in DOMAIN pool : Unsized(pool[i])

\* C8: a Grain::advance call on an active grain adds exactly 1 to
\* currentSample and changes no other field but active; on a grain with
\* currentSample < lengthSamples the sum does not pass lengthSamples, the call
\* on which it reaches lengthSamples clears active and returns false and the
\* calls before return true; a call on an inactive grain returns false and
\* changes no field.
C8_AdvanceCountsToLength ==
    op.name = "Grain::advance" =>
        LET b == op.before
            a == pool[op.slot]
        IN  IF b.active
            THEN /\ a.currentSample = b.currentSample + 1
                 /\ a = [b EXCEPT !.currentSample = a.currentSample,
                                  !.active = a.active]
                 /\ b.currentSample < b.lengthSamples =>
                       /\ a.currentSample <= b.lengthSamples
                       /\ a.currentSample = b.lengthSamples =>
                             ~ a.active /\ ~ op.result
                       /\ a.currentSample < b.lengthSamples =>
                             a.active /\ op.result
            ELSE a = b /\ ~ op.result

\* a grain of two samples that reached its length is advanced once more
C8_Witness ==
    /\ op.name = "Grain::advance"
    /\ ~ op.before.active
    /\ op.before.lengthSamples = 2
    /\ op.before.currentSample = 2
    /\ pool[op.slot] = op.before

\* C10: a GrainScheduler::process call that reaches its spawn attempt while
\* all 64 grains are active changes no grain and sets the countdown to the
\* full interval; after it, and until the scheduler is reset, the next call
\* that reaches a spawn attempt is the one a full interval of calls later,
\* and no call before it, whether or not grains ended in between.
C10_DroppedSpawnKeepsInterval ==
    op.name = "GrainScheduler::process" =>
        /\ op.dropped =>
              /\ ~ op.changed
              /\ scheduler.samplesUntilNextGrain = op.interval
        /\ op.prevDropped => (op.attempt <=> op.gap = op.prevInterval)

\* an attempt was dropped on the full pool, grains ended, and the next
\* attempt, three calls later, spawned a grain
C10_Witness ==
    /\ op.name = "GrainScheduler::process"
    /\ op.prevDropped
    /\ op.attempt
    /\ op.gap = 3
    /\ op.changed
    /\ Cardinality(ActiveGrains) = 1

\* C16 as stated: every grain GrainScheduler::process spawns has
\* lengthSamples = max(1, round(grainSizeMs / 1000 * sampleRate)), the
\* product rounded to the nearest integer.
C16_Original ==
    (op.name = "GrainScheduler::process" /\ op.slot # 0) =>
        pool[op.slot].lengthSamples =
            LET twice == (2 * op.grainSizeMs * scheduler.sr) \div 10000
            IN  IF (twice + 1) \div 2 < 1 THEN 1 ELSE (twice + 1) \div 2

\* C16 amended: every grain GrainScheduler::process spawns has
\* lengthSamples = max(1, floor(grainSizeMs / 1000 * sampleRate)): the
\* product is truncated to an integer, not rounded.
C16_Amended ==
    (op.name = "GrainScheduler::process" /\ op.slot # 0) =>
        pool[op.slot].lengthSamples =
            LET whole == (op.grainSizeMs * scheduler.sr) \div 10000
            IN  IF whole < 1 THEN 1 ELSE whole

\* a grain spawned with a size of 2.5 samples, which has 2 samples
C16_Witness ==
    /\ op.name = "GrainScheduler::process"
    /\ op.slot # 0
    /\ 2 * op.grainSizeMs * scheduler.sr = 5 * 10000
    /\ pool[op.slot].lengthSamples = 2

\* C21: GrainPool::acquire returns the lowest-indexed inactive slot, sets
\* its active flag and its currentSample to 0 and leaves every other slot
\* and every other field unchanged; when all 64 slots are active it returns
\* no grain and changes no slot.
C21_AcquireLowestFree ==
    op.name = "GrainPool::acquire" =>
        LET free == {i \in DOMAIN op.before : ~ op.before[i].active}
        IN  IF free = {}
            THEN /\ op.slot = 0
                 /\ pool = op.before
            ELSE /\ op.slot \in free
                 /\ \A i \in free : op.slot <= i
                 /\ pool[op.slot].active
                 /\ pool[op.slot].currentSample = 0
                 /\ \A i \in DOMAIN pool :
                        i # op.slot => pool[i] = op.before[i]
                 /\ pool[op.slot] = [op.before[op.slot] EXCEPT
                                        !.active = TRUE, !.currentSample = 0]
                 /\ DOMAIN pool = DOMAIN op.before

\* acquire took slot 1 again, a grain that had ended with its sample counter
\* at its length, while a higher slot was free too
C21_Witness ==
    /\ op.name = "GrainPool::acquire"
    /\ op.slot = 1
    /\ ~ op.before[1].active
    /\ op.before[1].currentSample > 0
    /\ ~ op.before[2].active
    /\ pool[1].active
    /\ pool[1].currentSample = 0

----------------------------------------------------------------------------
(* SpecSched: a GrainScheduler called once per sample for one second, with *)
(* a constant density                                                      *)

\* the runs: the sample rate given to prepare, the density in tenths of a
\* grain per second (0 is below the floor of 0.1) and the reset calls made
\* during the run
SchedRuns ==
    {[sr |-> 48000, density |-> 80, resets |-> 0]}
        \cup {[sr |-> 60, density |-> d, resets |-> 1] : d \in {0, 10, 80, 500}}

\* history of SpecSched.  run: the run; total: the process calls made;
\* calls, attempts: the process calls and the spawn attempts made since
\* prepare or the last reset; resets: the reset calls left
InitSched ==
    /\ \E run \in SchedRuns :
          /\ scheduler = GrainScheduler_prepare(run.sr)
          /\ hist = [ run      |-> run,
                      total    |-> 0,
                      calls    |-> 0,
                      attempts |-> 0,
                      resets   |-> run.resets ]
    /\ circularBuffer = CircularBuffer_prepare(2, 1, 10)
    /\ pool = GrainPool_new
    /\ writePositions = << >>
    /\ op = [name |-> "prepare"]
    /\ lfo = LFOModulator_new
    /\ postProcessor = PostProcessor_new
    /\ visualData = VisualData_new

SchedProcess ==
    /\ hist.total < hist.run.sr
    /\ LET p == [DefaultParams EXCEPT !.density = hist.run.density]
           r == [pos |-> 0, pitch |-> 0, pan |-> 0]
       IN  /\ scheduler' = GrainScheduler_process_sched(scheduler, pool, p)
           /\ pool' = GrainScheduler_process_pool(scheduler, pool,
                                                  circularBuffer, p, r)
    /\ op' = [name |-> "GrainScheduler::process", attempt |-> SpawnDue(scheduler)]
    /\ hist' = [hist EXCEPT !.total    = hist.total + 1,
                            !.calls    = hist.calls + 1,
                            !.attempts = hist.attempts
                                            + (IF op'.attempt THEN 1 ELSE 0)]
    /\ UNCHANGED <<circularBuffer, writePositions>>
    /\ UNCHANGED <<lfo, postProcessor, visualData>>

SchedReset ==
    /\ hist.resets > 0
    /\ scheduler' = GrainScheduler_reset(scheduler)
    /\ op' = [name |-> "GrainScheduler::reset"]
    /\ hist' = [hist EXCEPT !.calls = 0, !.attempts = 0,
                            !.resets = hist.resets - 1]
    /\ UNCHANGED <<circularBuffer, pool, writePositions>>
    /\ UNCHANGED <<lfo, postProcessor, visualData>>

NextSched ==
    \/ SchedProcess
    \/ SchedReset

SpecSched == InitSched /\ [][NextSched]_vars

\* floor (sampleRate / max (0.1, density)) of the run
RunInterval ==
    (hist.run.sr * 10) \div (IF hist.run.density < 1 THEN 1 ELSE hist.run.density)

\* C9: with a constant density and sample rate, call n after prepare or reset
\* (n = 1, 2, ...) makes a spawn attempt exactly when n - 1 is a multiple of
\* floor (sampleRate / max (0.1, density)): the first call does and then one
\* call in every interval; so 48000 calls at sampleRate 48000 and density 8
\* make 8 attempts.
C9_OneAttemptPerInterval ==
    op.name = "GrainScheduler::process" =>
        /\ op.attempt <=> (hist.calls - 1) % RunInterval = 0
        /\ hist.attempts = (hist.calls + RunInterval - 1) \div RunInterval
        /\ (hist.run.sr = 48000 /\ hist.run.density = 80 /\ hist.calls = 48000)
              => hist.attempts = 8

\* at sampleRate 60 and density 8 (an interval of 7) the scheduler was reset
\* in the middle of an interval, and call 15 after the reset makes the third
\* attempt since
C9_Witness ==
    /\ op.name = "GrainScheduler::process"
    /\ hist.run.sr = 60
    /\ hist.run.density = 80
    /\ hist.resets = 0
    /\ hist.total = 18
    /\ hist.calls = 15
    /\ op.attempt
    /\ hist.attempts = 3

----------------------------------------------------------------------------
(* SpecEngine: a GranularEngine after prepare, under process and reset *)

\* the sample rate and the block size given to GranularEngine::prepare
EnginePrepare == [sampleRate |-> 4, samplesPerBlock |-> 3]

\* the process calls are counted up to MaxBlocks
MaxBlocks == 2

\* the blocks: their length, shorter and longer than the prepared block size
\* and than the shortest buffer; the buffer length, 4 and 8 samples; the
\* freeze flag; the feedback amount, 0 and 0.5; the grain size and density,
\* grains of 2 samples on every sample and grains of 1 sample every 4
\* samples; the post-processed output, which differs from the input.  One
\* more block has grains of 2 samples every 2 samples, the shimmer on and
\* the LFO at 2 Hz on the triangle
EngineBlocks ==
    { [WithBuffer(DefaultBlock(n), frz, len) EXCEPT
          !.feedbackAmt = fb,
          !.params = [DefaultParams EXCEPT !.grainSizeMs = g[1],
                                           !.density = g[2]]] :
      n \in {1, 3, 6}, len \in {10, 20},
      frz \in BOOLEAN, fb \in {0, 50},
      g \in {<<5000, 500>>, <<1000, 10>>} }
    \cup
    { [WithBuffer(DefaultBlock(3), FALSE, 10) EXCEPT
          !.shimmerAmt = 50,
          !.lfoRate    = 200,
          !.lfoShape   = "Triangle",
          !.lfoDepth   = 100,
          !.params = [DefaultParams EXCEPT !.grainSizeMs = 5000,
                                           !.density = 20]] }

\* the state of the engine as the operators of GranularEngine take it
EngineState ==
    [ cb     |-> circularBuffer,
      grains |-> pool,
      sch    |-> scheduler,
      wp     |-> writePositions,
      lfo    |-> lfo,
      pp     |-> postProcessor,
      vd     |-> visualData,
      mix    |-> << >> ]

\* the index a writeSample call on cb stores at, found as the index where
\* the buffers after writing 0 and after writing 1 differ; -1 when the call
\* stores nothing
StoredIndex(cb) ==
    LET zero == writeSample(cb, 0, 0)
        one  == writeSample(cb, 0, 1)
    IN  IF zero.buffer = one.buffer
        THEN -1
        ELSE CHOOSE i \in 0..(cb.maxSamples - 1) :
                 zero.buffer[0][i] # one.buffer[0][i]

\* the index a writeFeedbackAt call on cb at position adds at, found by
\* adding 1; -1 when the call adds nothing
AddedIndex(cb, position) ==
    LET probe == writeFeedbackAt(cb, 0, position, 1)
    IN  IF probe.buffer = cb.buffer
        THEN -1
        ELSE CHOOSE i \in 0..(cb.maxSamples - 1) :
                 probe.buffer[0][i] # cb.buffer[0][i]

\* the buffer after the input write and the advance of samples s..numSamples
\* and nothing else
RECURSIVE InputOnly(_, _, _)
InputOnly(cb, blk, s) ==
    IF s > blk.numSamples
    THEN cb
    ELSE CHOOSE end \in { InputOnly(next, blk, s + 1) :
                              next \in {advanceWritePosition(
                                            writeSample(cb, 0, blk.input[s]))} } :
             TRUE

\* the indexes the input of each sample was stored at, as a sequence
RECURSIVE StoredIndexes(_, _, _)
StoredIndexes(cb, blk, s) ==
    IF s > blk.numSamples
    THEN << >>
    ELSE CHOOSE all \in { <<StoredIndex(cb)>> \o StoredIndexes(next, blk, s + 1) :
                              next \in {advanceWritePosition(
                                            writeSample(cb, 0, blk.input[s]))} } :
             TRUE

\* the indexes the feedback of each sample was added at, as a sequence
RECURSIVE AddedIndexes(_, _, _, _)
AddedIndexes(cb, wp, blk, s) ==
    IF s > blk.numSamples
    THEN << >>
    ELSE <<AddedIndex(cb, FeedbackPosition(cb, wp, s))>>
             \o AddedIndexes(cb, wp, blk, s + 1)

InitEngine ==
    /\ LET st == GranularEngine_prepare(
                     [ lfo    |-> LFOModulator_new,
                       pp     |-> PostProcessor_new,
                       grains |-> GrainPool_new,
                       vd     |-> VisualData_new ],
                     EnginePrepare.sampleRate, EnginePrepare.samplesPerBlock, 1)
       IN  /\ circularBuffer = st.cb
           /\ scheduler = st.sch
           /\ pool = st.grains
           /\ writePositions = st.wp
           /\ lfo = st.lfo
           /\ postProcessor = st.pp
           /\ visualData = st.vd
    /\ op = [name |-> "GranularEngine::prepare"]
    /\ hist = [blocks |-> 0]

EngineProcess(blk) ==
    /\ hist.blocks < MaxBlocks
    /\ \E st \in {GranularEngine_process(EngineState, blk)},
          cb0 \in {setFrozen(setBufferLength(circularBuffer, blk.bufLenSec),
                             blk.freezeOn)} :
         \E end \in {InputOnly(cb0, blk, 1)} :
           /\ circularBuffer' = st.cb
           /\ pool' = st.grains
           /\ scheduler' = st.sch
           /\ writePositions' = st.wp
           /\ lfo' = st.lfo
           /\ postProcessor' = st.pp
           /\ visualData' = st.vd
           /\ op' = [ name         |-> "GranularEngine::process",
                      numSamples   |-> blk.numSamples,
                      feedbackAmt  |-> blk.feedbackAmt,
                      output       |-> blk.output,
                      before       |-> circularBuffer,
                      inputOnly    |-> end,
                      stored       |-> StoredIndexes(cb0, blk, 1),
                      added        |-> IF FeedbackEnabled(FeedbackAmount(blk))
                                       THEN AddedIndexes(end, st.wp, blk, 1)
                                       ELSE << >> ]
    /\ hist' = [hist EXCEPT !.blocks = hist.blocks + 1]

EngineReset ==
    /\ hist.blocks < MaxBlocks
    /\ LET st == GranularEngine_reset(EngineState)
       IN  /\ circularBuffer' = st.cb
           /\ pool' = st.grains
           /\ scheduler' = st.sch
           /\ writePositions' = st.wp
           /\ lfo' = st.lfo
           /\ postProcessor' = st.pp
           /\ visualData' = st.vd
    /\ op' = [name |-> "GranularEngine::reset", before |-> EngineState]
    /\ UNCHANGED hist

NextEngine ==
    \/ \E blk \in EngineBlocks : EngineProcess(blk)
    \/ EngineReset

SpecEngine == InitEngine /\ [][NextEngine]_vars

----------------------------------------------------------------------------
(* Properties of GranularEngine::process, under SpecEngine *)

\* the last operation was a process call with the buffer not frozen
ProcessedUnfrozen ==
    /\ op.name = "GranularEngine::process"
    /\ ~circularBuffer.frozen

\* the last operation was a process call that wrote feedback into a buffer
\* that was not frozen
ProcessedWithFeedback ==
    /\ ProcessedUnfrozen
    /\ FeedbackEnabled(op.feedbackAmt)

\* the feedback of samples s..numSamples of the last block that belongs at
\* index i, when the feedback of each sample belongs where its input was
\* stored
RECURSIVE FeedbackAt(_, _)
FeedbackAt(i, s) ==
    IF s > op.numSamples
    THEN 0
    ELSE (IF op.stored[s] = i
          THEN FeedbackSample(op.output[s], op.feedbackAmt)
          ELSE 0) + FeedbackAt(i, s + 1)

\* the feedback of every sample of the last block was added at the index at
\* which the input of that sample was stored: the logged indexes agree, and
\* the content of the buffer is the content after the input writes plus, at
\* each index, the feedback of the samples stored there
FeedbackWhereInputWasWritten ==
    /\ op.added = op.stored
    /\ \A i \in 0..(circularBuffer.maxSamples - 1) :
           circularBuffer.buffer[0][i]
               = op.inputOnly.buffer[0][i] + FeedbackAt(i, 1)

\* no feedback of the last block was added at the index of the write head
\* after the block
FeedbackNotAtWriteHead ==
    \A s \in 1..op.numSamples : op.added[s] # WriteIndex(circularBuffer)

\* C4 as stated: in GranularEngine::process with feedback enabled and the
\* buffer not frozen, the feedback of every sample s is added at the index
\* at which the input of s was written, and never at the position of the
\* write head after the block, for every block size.
C4_Original ==
    ProcessedWithFeedback =>
        /\ FeedbackWhereInputWasWritten
        /\ FeedbackNotAtWriteHead

\* C4: in GranularEngine::process with feedback enabled and the buffer not
\* frozen, the feedback of every sample s is added at the index at which the
\* input of s was written, for every block size, wrapping blocks and a write
\* position above the active length included; that index is not the index
\* of the write head after the block when the block is shorter than the
\* active length.
C4_Amended ==
    ProcessedWithFeedback =>
        /\ FeedbackWhereInputWasWritten
        /\ op.numSamples < circularBuffer.activeSamples => FeedbackNotAtWriteHead

\* a block with feedback, shorter than the active length, that began with
\* the write position above the active length and wrapped the buffer
C4_Witness ==
    /\ ProcessedWithFeedback
    /\ op.numSamples < circularBuffer.activeSamples
    /\ op.before.writePos >= circularBuffer.activeSamples
    /\ \E s \in 1..(op.numSamples - 1) : op.stored[s + 1] < op.stored[s]
    /\ \A s \in 1..op.numSamples : op.added[s] >= 0
    /\ circularBuffer.buffer # op.inputOnly.buffer

\* C5: with the feedback amount 0, the content and the write position of the
\* buffer after GranularEngine::process are those after only the input write
\* and advance of each sample of the block, whatever grains were active and
\* whatever the post-processed output was.
C5_NoFeedbackIsInputOnly ==
    (op.name = "GranularEngine::process" /\ op.feedbackAmt = 0) =>
        /\ circularBuffer.buffer = op.inputOnly.buffer
        /\ circularBuffer.writePos = op.inputOnly.writePos

\* a block with feedback 0 that changed the buffer while grains were active
\* and the post-processed output was not silent
C5_Witness ==
    /\ ProcessedUnfrozen
    /\ op.feedbackAmt = 0
    /\ circularBuffer.buffer # op.before.buffer
    /\ ActiveGrains # {}
    /\ \A s \in 1..op.numSamples : op.output[s] # 0

\* C14: after GranularEngine::reset no grain is active, the countdown of the
\* scheduler is 0, the phase of the LFO is 0 and no sample-and-hold trigger
\* is pending, the history of the DC blocker and the shimmer delay line are
\* all zero; the circular buffer (samples, write position, active length,
\* frozen flag) is as it was before the call.
C14_ResetClearsAllButBuffer ==
    op.name = "GranularEngine::reset" =>
        /\ \A i \in DOMAIN pool : ~pool[i].active
        /\ scheduler.samplesUntilNextGrain = 0
        /\ lfo.phase = 0
        /\ ~lfo.shTriggered
        /\ \A ch \in DOMAIN postProcessor.dcBlockerX :
               /\ postProcessor.dcBlockerX[ch] = 0
               /\ postProcessor.dcBlockerY[ch] = 0
        /\ \A i \in DOMAIN postProcessor.shimmerBuffer :
               postProcessor.shimmerBuffer[i] = 0
        /\ circularBuffer = op.before.cb

\* a reset of an engine that had a grain active, the scheduler counting
\* down, the LFO in mid-cycle with a trigger pending, history in the DC
\* blocker, sound in the shimmer delay line, and a shortened buffer with
\* samples in it and the write head away from 0
C14_Witness ==
    /\ op.name = "GranularEngine::reset"
    /\ \E i \in DOMAIN op.before.grains : op.before.grains[i].active
    /\ op.before.sch.samplesUntilNextGrain # 0
    /\ op.before.lfo.phase # 0
    /\ op.before.lfo.shTriggered
    /\ op.before.pp.dcBlockerX[1] # 0
    /\ op.before.pp.dcBlockerY[1] # 0
    /\ \E i \in DOMAIN op.before.pp.shimmerBuffer :
           op.before.pp.shimmerBuffer[i] # 0
    /\ op.before.cb.activeSamples < op.before.cb.maxSamples
    /\ op.before.cb.writePos # 0
    /\ \E i \in DOMAIN op.before.cb.buffer[0] : op.before.cb.buffer[0][i] # 0

\* C26: the snapshot a process call publishes is taken after the last grain
\* advance of the block: the slots it flags active are the slots active in
\* the pool when the call returns, and its activeCount is the number of
\* those slots, at most kMaxGrains.
C26_SnapshotMatchesPool ==
    op.name = "GranularEngine::process" =>
        LET data == visualData.value
        IN  /\ \A i \in 1..kMaxGrains : data.grains[i].active = pool[i].active
            /\ data.activeCount = Cardinality({i \in 1..kMaxGrains : pool[i].active})
            /\ data.activeCount <= kMaxGrains

\* a block that ends with a grain still active and with a grain that ended
\* within the call, flagged inactive in the snapshot
C26_Witness ==
    /\ op.name = "GranularEngine::process"
    /\ visualData.value.activeCount >= 1
    /\ \E i \in 1..kMaxGrains :
           /\ ~ pool[i].active
           /\ pool[i].lengthSamples > 0
           /\ pool[i].currentSample = pool[i].lengthSamples
           /\ ~ visualData.value.grains[i].active

----------------------------------------------------------------------------
(* SpecVisual: the audio thread in GranularEngine::process and the UI       *)
(* thread in GranularEngine::getVisualData, on one engine.  The store and   *)
(* the load of visualData are each three steps: take the lock of the atomic *)
(* object, copy the grains, copy the scalars and release the lock.          *)

\* the blocks of the audio thread: grains of 2 samples every 2 samples, 1 or
\* 3 samples a block, two pairs of measured levels
VisualBlocks ==
    { [DefaultBlock(n) EXCEPT
          !.inLevel  = lv,
          !.outLevel = lv + 1,
          !.params   = [DefaultParams EXCEPT !.grainSizeMs = 5000,
                                             !.density = 20]] :
      n \in {1, 3}, lv \in {10, 30} }

InitVisual ==
    /\ LET st == GranularEngine_prepare(
                     [ lfo    |-> LFOModulator_new,
                       pp     |-> PostProcessor_new,
                       grains |-> GrainPool_new,
                       vd     |-> VisualData_new ],
                     EnginePrepare.sampleRate, EnginePrepare.samplesPerBlock, 1)
       IN  /\ circularBuffer = st.cb
           /\ scheduler = st.sch
           /\ pool = st.grains
           /\ writePositions = st.wp
           /\ lfo = st.lfo
           /\ postProcessor = st.pp
           /\ visualData = st.vd
    /\ op = [name |-> "GranularEngine::prepare"]
    /\ hist = [blocks |-> 0, published |-> {}]

\* the audio thread runs GranularEngine::process on blk up to the call of
\* visualData.store in updateVisualData: data is built, not yet stored
AudioProcess(blk) ==
    /\ hist.blocks < MaxBlocks
    /\ visualData.audio.pc = "idle"
    /\ \E st \in {GranularEngine_process(EngineState, blk)} :
           /\ circularBuffer' = st.cb
           /\ pool' = st.grains
           /\ scheduler' = st.sch
           /\ writePositions' = st.wp
           /\ lfo' = st.lfo
           /\ postProcessor' = st.pp
           /\ visualData' = [visualData EXCEPT
                                !.audio = [pc |-> "store", data |-> st.vd.value]]
    /\ op' = [name |-> "GranularEngine::process"]
    /\ hist' = [hist EXCEPT !.blocks = hist.blocks + 1]

\* visualData.store (data): the audio thread takes the lock
AudioStoreLock ==
    /\ visualData.audio.pc = "store"
    /\ LockGranted(visualData)
    /\ visualData' = [visualData EXCEPT !.lock = "audio",
                                        !.audio.pc = "grains"]
    /\ op' = [name |-> "store: lock"]
    /\ UNCHANGED <<circularBuffer, pool, scheduler, writePositions, lfo,
                   postProcessor, hist>>

\* visualData.store (data): the grains are copied into the atomic
AudioStoreGrains ==
    /\ visualData.audio.pc = "grains"
    /\ visualData' = [visualData EXCEPT
                         !.value.grains = visualData.audio.data.grains,
                         !.audio.pc = "scalars"]
    /\ op' = [name |-> "store: grains"]
    /\ UNCHANGED <<circularBuffer, pool, scheduler, writePositions, lfo,
                   postProcessor, hist>>

\* visualData.store (data): the scalars are copied, the lock is released and
\* updateVisualData returns
AudioStoreScalars ==
    /\ visualData.audio.pc = "scalars"
    /\ visualData' = [visualData EXCEPT
                         !.value = visualData.audio.data,
                         !.lock = "free",
                         !.audio.pc = "idle"]
    /\ op' = [name |-> "GranularEngine::updateVisualData"]
    /\ hist' = [hist EXCEPT
                   !.published = hist.published \cup {visualData.audio.data}]
    /\ UNCHANGED <<circularBuffer, pool, scheduler, writePositions, lfo,
                   postProcessor>>

\* visualData.load() of getVisualData: the UI thread takes the lock
UiLoadLock ==
    /\ visualData.ui.pc = "idle"
    /\ LockGranted(visualData)
    /\ visualData' = [visualData EXCEPT !.lock = "ui", !.ui.pc = "grains"]
    /\ op' = [name |-> "load: lock"]
    /\ UNCHANGED <<circularBuffer, pool, scheduler, writePositions, lfo,
                   postProcessor, hist>>

\* visualData.load(): the grains are copied out of the atomic
UiLoadGrains ==
    /\ visualData.ui.pc = "grains"
    /\ visualData' = [visualData EXCEPT
                         !.ui.data.grains = visualData.value.grains,
                         !.ui.pc = "scalars"]
    /\ op' = [name |-> "load: grains"]
    /\ UNCHANGED <<circularBuffer, pool, scheduler, writePositions, lfo,
                   postProcessor, hist>>

\* visualData.load(): the scalars are copied, the lock is released and
\* getVisualData returns the copy
UiLoadScalars ==
    /\ visualData.ui.pc = "scalars"
    /\ visualData' = [visualData EXCEPT
                         !.ui.data = [visualData.value EXCEPT
                                         !.grains = visualData.ui.data.grains],
                         !.lock = "free",
                         !.ui.pc = "idle"]
    /\ op' = [name |-> "GranularEngine::getVisualData"]
    /\ UNCHANGED <<circularBuffer, pool, scheduler, writePositions, lfo,
                   postProcessor, hist>>

NextVisual ==
    \/ \E blk \in VisualBlocks : AudioProcess(blk)
    \/ AudioStoreLock
    \/ AudioStoreGrains
    \/ AudioStoreScalars
    \/ UiLoadLock
    \/ UiLoadGrains
    \/ UiLoadScalars

SpecVisual == InitVisual /\ [][NextVisual]_vars

----------------------------------------------------------------------------
(* Properties of SpecVisual *)

\* the audio thread is at visualData.store and the lock of the atomic is
\* held by the UI thread in its load
AudioWaitsForUi ==
    /\ visualData.audio.pc = "store"
    /\ visualData.lock = "ui"

\* C13: every snapshot getVisualData returns to the UI thread equals, field
\* for field, one snapshot a single updateVisualData call published (or the
\* value the atomic has before the first publication), and the audio thread
\* never waits for the UI thread to publish.
C13_Original ==
    /\ op.name = "GranularEngine::getVisualData" =>
           visualData.ui.data \in hist.published \cup {GrainVisualData_new}
    /\ ~AudioWaitsForUi

----------------------------------------------------------------------------
(* SpecSpawn: a GrainScheduler that spawns on every call, on a buffer of 8  *)
(* samples whose length and write position change between the calls.  The  *)
(* pool is emptied before each call, so that the grain spawned is slot 1.   *)

SpawnPrepare == [sampleRate |-> 1]

\* the buffer lengths asked for, in tenths of a second: 1, 3, 5 and 8 samples
SpawnLengths == {10, 30, 50, 80}

\* the arguments of GrainScheduler::process: the position at both ends and
\* in the middle of 0..100 %, the scatter at both ends and in the middle,
\* a density above the sample rate
SpawnParams ==
    { [DefaultParams EXCEPT !.position   = pos,
                            !.posScatter = sc,
                            !.density    = 100] :
      pos \in {0, 500, 1000}, sc \in {0, 500, 1000} }

\* the draws of random: nextFloat() * 2 - 1 in halves, for the position
SpawnDraws ==
    { [pos |-> d, pitch |-> 0, pan |-> 0] : d \in {-2, -1, 0, 1} }

InitSpawn ==
    /\ circularBuffer = CircularBuffer_prepare(SpawnPrepare.sampleRate, 1,
                                               kMaxBufferSeconds)
    /\ pool = resetAll(GrainPool_new)
    /\ scheduler = GrainScheduler_reset(GrainScheduler_prepare(SpawnPrepare.sampleRate))
    /\ writePositions = << >>
    /\ lfo = LFOModulator_new
    /\ postProcessor = PostProcessor_new
    /\ visualData = VisualData_new
    /\ op = [name |-> "prepare"]
    /\ hist = [spawned |-> FALSE]

SpawnSetBufferLength(l) ==
    /\ circularBuffer' = setBufferLength(circularBuffer, l)
    /\ op' = [name |-> "setBufferLength", length |-> l]
    /\ UNCHANGED <<pool, scheduler, writePositions, lfo, postProcessor,
                   visualData, hist>>

SpawnAdvanceWritePosition ==
    /\ circularBuffer' = advanceWritePosition(circularBuffer)
    /\ op' = [name |-> "advanceWritePosition"]
    /\ UNCHANGED <<pool, scheduler, writePositions, lfo, postProcessor,
                   visualData, hist>>

SpawnResetAll ==
    /\ \E i \in DOMAIN pool : pool[i].active
    /\ pool' = resetAll(pool)
    /\ op' = [name |-> "GrainPool::resetAll"]
    /\ UNCHANGED <<circularBuffer, scheduler, writePositions, lfo,
                   postProcessor, visualData, hist>>

SpawnProcess(p, r) ==
    /\ \A i \in DOMAIN pool : ~ pool[i].active
    /\ scheduler' = GrainScheduler_process_sched(scheduler, pool, p)
    /\ pool' = GrainScheduler_process_pool(scheduler, pool, circularBuffer, p, r)
    /\ op' = [ name       |-> "GrainScheduler::process",
               spawned    |-> SpawnDue(scheduler),
               position   |-> p.position,
               posScatter |-> p.posScatter,
               draw       |-> r.pos ]
    /\ hist' = [spawned |-> TRUE]
    /\ UNCHANGED <<circularBuffer, writePositions, lfo, postProcessor,
                   visualData>>

NextSpawn ==
    \/ \E l \in SpawnLengths : SpawnSetBufferLength(l)
    \/ SpawnAdvanceWritePosition
    \/ SpawnResetAll
    \/ \E p \in SpawnParams, r \in SpawnDraws : SpawnProcess(p, r)

SpecSpawn == InitSpawn /\ [][NextSpawn]_vars

----------------------------------------------------------------------------
(* Properties of SpecSpawn *)

\* C17: the startPos of a grain GrainScheduler::process spawns lies in
\* [0, activeLength), for every write position, position and scatter in
\* 0..100 % and draw in [-1, 1), also when the write position is at or above
\* the active length after a length decrease.
C17_StartPosInActiveLength ==
    (op.name = "GrainScheduler::process" /\ op.spawned) =>
        /\ pool[1].active
        /\ 0 <= pool[1].startPos
        /\ pool[1].startPos < getActiveLength(circularBuffer) * PosDen

\* a grain spawned with the write position above the active length, the
\* position at 100 %, the scatter at 100 % and the draw at -1
C17_Witness ==
    /\ op.name = "GrainScheduler::process"
    /\ op.spawned
    /\ getWritePosition(circularBuffer) >= getActiveLength(circularBuffer)
    /\ op.position = 1000
    /\ op.posScatter = 1000
    /\ op.draw = -2
    /\ pool[1].active

----------------------------------------------------------------------------
(* SpecLfo: an LFOModulator under prepare, process and reset.  The phase    *)
(* arithmetic is exact in the model; the sample rates are the lowest that   *)
(* exceed the highest rate, so that the phase wraps after few calls.        *)

\* the sample rates prepare is called with
LfoSampleRates == {21, 25}

\* the rates of the LFO in hundredths of a Hz: both ends of kMinLFORate ..
\* kMaxLFORate (0.01 and 20 Hz) and 7 Hz
LfoRates == {1, 700, 2000}

\* the shapes: one that leaves the sample-and-hold trigger pending and the
\* one that takes it
LfoShapes == {"Triangle", "SampleAndHold"}

\* the draw of random, nextFloat() * 2 - 1 in thousandths
LfoDraws == {500}

InitLfo ==
    /\ \E sampleRate \in LfoSampleRates :
           lfo = LFOModulator_prepare(LFOModulator_new, sampleRate)
    /\ circularBuffer = CircularBuffer_prepare(1, 1, kMaxBufferSeconds)
    /\ pool = resetAll(GrainPool_new)
    /\ scheduler = GrainScheduler_reset(GrainScheduler_prepare(1))
    /\ writePositions = << >>
    /\ postProcessor = PostProcessor_new
    /\ visualData = VisualData_new
    /\ op = [name |-> "LFOModulator::prepare"]
    /\ hist = [wraps |-> 0]

LfoPrepare(sampleRate) ==
    /\ lfo' = LFOModulator_prepare(lfo, sampleRate)
    /\ op' = [name |-> "LFOModulator::prepare"]
    /\ hist' = [wraps |-> 0]
    /\ UNCHANGED <<circularBuffer, pool, scheduler, writePositions,
                   postProcessor, visualData>>

LfoProcess(rate, shape, rnd) ==
    /\ lfo' = LFOModulator_process(lfo, rate, shape, rnd)
    /\ op' = [ name    |-> "LFOModulator::process",
               rate    |-> rate,
               shape   |-> shape,
               before  |-> lfo.phase,
               held    |-> lfo.currentSHValue,
               pending |-> lfo.shTriggered,
               rnd     |-> IF shape = "SampleAndHold" THEN rnd ELSE 0,
               value   |-> LFOModulator_value(lfo, rate, shape, rnd) ]
    /\ hist' = [wraps |-> IF lfo'.phase < lfo.phase THEN 1 ELSE 0]
    /\ UNCHANGED <<circularBuffer, pool, scheduler, writePositions,
                   postProcessor, visualData>>

LfoReset ==
    /\ lfo' = LFOModulator_reset(lfo)
    /\ op' = [name |-> "LFOModulator::reset"]
    /\ hist' = [wraps |-> 0]
    /\ UNCHANGED <<circularBuffer, pool, scheduler, writePositions,
                   postProcessor, visualData>>

NextLfo ==
    \/ \E sampleRate \in LfoSampleRates : LfoPrepare(sampleRate)
    \/ \E rate \in LfoRates, shape \in LfoShapes, rnd \in LfoDraws :
           LfoProcess(rate, shape, rnd)
    \/ LfoReset

SpecLfo == InitLfo /\ [][NextLfo]_vars

----------------------------------------------------------------------------
(* SpecHold: the same LFOModulator with two draws of random, so that a new  *)
(* sample-and-hold value is told from the held one, at the rates that wrap  *)
(* within a few calls.                                                      *)

\* the rates in hundredths of a Hz: 7 Hz and kMaxLFORate
HoldRates == {700, 2000}

\* the draws of random, nextFloat() * 2 - 1 in thousandths
HoldDraws == {-500, 500}

NextHold ==
    \/ \E sampleRate \in LfoSampleRates : LfoPrepare(sampleRate)
    \/ \E rate \in HoldRates, shape \in LfoShapes, rnd \in HoldDraws :
           LfoProcess(rate, shape, rnd)
    \/ LfoReset

SpecHold == InitLfo /\ [][NextHold]_vars

----------------------------------------------------------------------------
(* Properties of SpecLfo *)

\* C18: after every LFOModulator::process call, for the rates of the
\* declared range and every prepared sample rate (above the rate), the phase
\* is in [0, 1); it is the phase before plus rate / sampleRate, less 1
\* exactly when that sum is 1 or more.
C18_PhaseInUnitInterval ==
    /\ 0 <= lfo.phase
    /\ lfo.phase < PhaseDen(lfo)
    /\ op.name = "LFOModulator::process" =>
           LET sum == op.before + op.rate
           IN  /\ sum >= 100 * lfo.sr => lfo.phase = sum - 100 * lfo.sr
               /\ sum < 100 * lfo.sr  => lfo.phase = sum

\* a call at 20 Hz whose sum is exactly 1 and that wrapped to phase 0
C18_Witness ==
    /\ op.name = "LFOModulator::process"
    /\ op.rate = 2000
    /\ op.before + op.rate = 100 * lfo.sr
    /\ lfo.phase = 0

----------------------------------------------------------------------------
(* Properties of SpecHold *)

\* C25 as stated: with the shape SampleAndHold, LFOModulator::process draws
\* a new value exactly on the calls where the phase wraps and returns the
\* held value on every other call, whatever the shapes of the calls before.
C25_Original ==
    (op.name = "LFOModulator::process" /\ op.shape = "SampleAndHold") =>
        /\ op.value = lfo.currentSHValue
        /\ IF op.before + op.rate >= 100 * lfo.sr
           THEN lfo.currentSHValue = op.rnd
           ELSE lfo.currentSHValue = op.held

\* what the code does instead: with the shape SampleAndHold, process draws a
\* new value on the calls where a trigger is pending, that is when the phase
\* wraps on the call or has wrapped on a call with another shape since the
\* last draw or reset, and returns the held value on every other call; a
\* call with another shape leaves the held value and keeps the trigger.
PendingTriggerDraws ==
    op.name = "LFOModulator::process" =>
        LET wrapped == op.before + op.rate >= 100 * lfo.sr
        IN  IF op.shape = "SampleAndHold"
            THEN /\ op.value = lfo.currentSHValue
                 /\ ~ lfo.shTriggered
                 /\ IF wrapped \/ op.pending
                    THEN lfo.currentSHValue = op.rnd
                    ELSE lfo.currentSHValue = op.held
            ELSE /\ lfo.currentSHValue = op.held
                 /\ lfo.shTriggered = (wrapped \/ op.pending)

\* a SampleAndHold call on which the phase did not wrap and a new value was
\* drawn, the trigger pending from a wrap under another shape
LateDraw ==
    /\ op.name = "LFOModulator::process"
    /\ op.shape = "SampleAndHold"
    /\ op.before + op.rate < 100 * lfo.sr
    /\ op.pending
    /\ op.held # 0
    /\ op.rnd # op.held
    /\ lfo.currentSHValue = op.rnd
    /\ op.value = op.rnd

----------------------------------------------------------------------------
(* SpecParams: GranularEngine::process on blocks that differ in what the    *)
(* parameters hold: the LFO target and shape, the feedback amount, and the  *)
(* freeze flag and the buffer length, which change while a block is being   *)
(* processed.                                                               *)

\* the block values of the grain parameters in these blocks: all away from
\* the ends of their ranges, but the position in one case
ParamValues(position) ==
    [DefaultParams EXCEPT !.grainSizeMs = 3000,
                          !.density     = 20,
                          !.position    = position,
                          !.pitch       = 3,
                          !.pan         = 20]

\* the blocks, of 3 samples: the LFO at 1 Hz and full depth on each target,
\* square or sample-and-hold (the draw 0.5), the position at 50 % and at
\* 90 %, where the modulated position exceeds 100 %; and, on the target
\* Size, the grain size at 400 ms and at 15 ms, which the square LFO takes
\* above 500 ms and below 10 ms
LfoBlocks ==
    { [WithBuffer(DefaultBlock(3), FALSE, 10) EXCEPT
          !.lfoDepth  = 100,
          !.lfoShape  = shape,
          !.lfoTarget = target,
          !.random    = [s \in 1..3 |->
                            [pos |-> 0, pitch |-> 0, pan |-> 0, lfo |-> 500]],
          !.params    = ParamValues(position)] :
      target \in {"Size", "Position", "Pitch", "Pan", "Filter"},
      shape \in {"Square", "SampleAndHold"},
      position \in {500, 900} }
    \cup
    { [WithBuffer(DefaultBlock(3), FALSE, 10) EXCEPT
          !.lfoDepth  = 100,
          !.lfoShape  = "Square",
          !.lfoTarget = "Size",
          !.params    = [ParamValues(500) EXCEPT !.grainSizeMs = size]] :
      size \in {4000, 150} }

\* the feedback amounts the provider supplies: the end of the declared range
\* and a value above it
FeedbackBlocks ==
    { [WithBuffer(DefaultBlock(3), FALSE, 10) EXCEPT
          !.feedbackAmt = fb,
          !.params      = ParamValues(500)] :
      fb \in {95, 150} }

\* the freeze flag and the buffer length when the block starts (frz, len),
\* and from the second sample on (frz2, len2)
ChangingBlocks ==
    { [WithBuffer(DefaultBlock(3), frz, len) EXCEPT
          !.later  = [s \in 1..3 |->
                         IF s = 1
                         THEN [freezeOn |-> frz, bufLenSec |-> len]
                         ELSE [freezeOn |-> frz2, bufLenSec |-> len2]],
          !.params = ParamValues(500)] :
      frz \in BOOLEAN, frz2 \in BOOLEAN, len \in {10, 20}, len2 \in {10, 20} }

\* grains of 2 samples that start at index 0 of the 4-sample buffer
\* (position 75 %), forward and reversed, at the original pitch and two
\* octaves up: the grain spawned on the last sample of the block is active
\* when the snapshot is taken, its read position one or four samples from
\* its start
ReversedBlocks ==
    { [WithBuffer(DefaultBlock(3), FALSE, 10) EXCEPT
          !.params = [ParamValues(750) EXCEPT !.grainSizeMs = 5000,
                                              !.pitch       = pitch,
                                              !.pan         = 0,
                                              !.reverse     = reverse]] :
      pitch \in {0, 24}, reverse \in BOOLEAN }

\* grains of 2 samples, one spawned on every sample, with no scatter and the
\* position at both ends of its range, on the 4-sample buffer
PositionBlocks ==
    { [WithBuffer(DefaultBlock(3), FALSE, 10) EXCEPT
          !.params = [ParamValues(position) EXCEPT !.grainSizeMs = 5000,
                                                   !.density     = 40,
                                                   !.pitch       = 0,
                                                   !.pan         = 0]] :
      position \in {0, 1000} }

ParamBlocks ==
    LfoBlocks \cup FeedbackBlocks \cup ChangingBlocks \cup ReversedBlocks
        \cup PositionBlocks

InitParams ==
    /\ LET st == GranularEngine_prepare(
                     [ lfo    |-> LFOModulator_new,
                       pp     |-> PostProcessor_new,
                       grains |-> GrainPool_new,
                       vd     |-> VisualData_new ],
                     EnginePrepare.sampleRate, EnginePrepare.samplesPerBlock, 1)
       IN  /\ circularBuffer = st.cb
           /\ scheduler = st.sch
           /\ pool = st.grains
           /\ writePositions = st.wp
           /\ lfo = st.lfo
           /\ postProcessor = st.pp
           /\ visualData = st.vd
    /\ op = [name |-> "GranularEngine::prepare"]
    /\ hist = [blocks |-> 0, targets |-> {}]

\* GranularEngine::process on blk.  The log keeps, for each sample, the LFO
\* value, the arguments passed to the scheduler, and the freeze flag and the
\* active length of the buffer the sample was processed with
ParamsProcess(blk) ==
    /\ hist.blocks < MaxBlocks
    /\ \E st \in {GranularEngine_process(EngineState, blk)},
          sts \in {SampleStates(
                       [EngineState EXCEPT
                           !.cb = setFrozen(
                                      setBufferLength(circularBuffer, blk.bufLenSec),
                                      blk.freezeOn),
                           !.wp = ResizeWritePositions(writePositions,
                                                       blk.numSamples)],
                       blk, 1)} :
           /\ circularBuffer' = st.cb
           /\ pool' = st.grains
           /\ scheduler' = st.sch
           /\ writePositions' = st.wp
           /\ lfo' = st.lfo
           /\ postProcessor' = st.pp
           /\ visualData' = st.vd
           /\ op' = [ name         |-> "GranularEngine::process",
                      blk          |-> blk,
                      before       |-> circularBuffer,
                      feedbackUsed |-> FeedbackAmount(blk),
                      loop         |-> [s \in 1..blk.numSamples |-> sts[s].cb],
                      afterLoop    |-> ProcessSample(sts[blk.numSamples], blk,
                                                     blk.numSamples).cb,
                      lfoValue     |-> [s \in 1..blk.numSamples |->
                                           LfoValue(sts[s].lfo, blk, s)],
                      passed       |-> [s \in 1..blk.numSamples |->
                                           PassedParams(sts[s].lfo, blk, s)],
                      used         |-> [s \in 1..blk.numSamples |->
                                           [ frozen        |-> sts[s].cb.frozen,
                                             activeSamples |->
                                                 getActiveLength(sts[s].cb),
                                             writePos      |->
                                                 getWritePosition(sts[s].cb) ]] ]
           /\ hist' = [ blocks  |-> hist.blocks + 1,
                        targets |-> IF \E s \in 1..blk.numSamples :
                                           LfoValue(sts[s].lfo, blk, s) # 0
                                    THEN hist.targets \cup {blk.lfoTarget}
                                    ELSE hist.targets ]

NextParams ==
    \E blk \in ParamBlocks : ParamsProcess(blk)

SpecParams == InitParams /\ [][NextParams]_vars

----------------------------------------------------------------------------
(* Properties of SpecParams *)

C19_OnlyTargetModulated ==
    op.name = "GranularEngine::process" =>
        \A s \in 1..op.blk.numSamples :
            LET block  == op.blk.params
                target == op.blk.lfoTarget
                passed == op.passed[s]
                size   == IF block.grainSizeMs < kMinGrainSizeMs
                          THEN kMinGrainSizeMs
                          ELSE IF block.grainSizeMs > kMaxGrainSizeMs
                               THEN kMaxGrainSizeMs
                               ELSE block.grainSizeMs
                pos    == IF block.position < 0
                          THEN 0
                          ELSE IF block.position > 1000
                               THEN 1000
                               ELSE block.position
            IN  /\ target # "Size"     => passed.grainSizeMs = size
                /\ target # "Position" => passed.position = pos
                /\ target # "Pitch"    => passed.pitch = block.pitch
                /\ target # "Pan"      => passed.pan = block.pan
                /\ [passed EXCEPT !.grainSizeMs = 0, !.position = 0,
                                  !.pitch = 0, !.pan = 0]
                       = [block EXCEPT !.grainSizeMs = 0, !.position = 0,
                                       !.pitch = 0, !.pan = 0]

\* a block with the target Position and the LFO away from 0, whose position
\* differs from the block value on every sample, after a block with the
\* target Filter and the LFO away from 0
C19_Witness ==
    /\ op.name = "GranularEngine::process"
    /\ op.blk.lfoTarget = "Position"
    /\ \A s \in 1..op.blk.numSamples :
           /\ op.lfoValue[s] # 0
           /\ op.passed[s].position # op.blk.params.position
    /\ "Filter" \in hist.targets

\* C22: for every LFO value, depth and target the grain size passed to the
\* scheduler on each sample lies in [10, 500] ms and the position in
\* [0, 100] %, and every grain spawned has
\* 1 <= lengthSamples <= 0.5 * sampleRate.
C22_SizeAndPositionInRange ==
    /\ op.name = "GranularEngine::process" =>
           \A s \in 1..op.blk.numSamples :
               /\ 100 <= op.passed[s].grainSizeMs
               /\ op.passed[s].grainSizeMs <= 5000
               /\ 0 <= op.passed[s].position
               /\ op.passed[s].position <= 1000
    /\ \A i \in DOMAIN pool :
           pool[i].lengthSamples # 0 =>
               /\ 1 <= pool[i].lengthSamples
               /\ 2 * pool[i].lengthSamples <= scheduler.sr

\* a block with the target Size and a block size of 400 ms, on a sample of
\* which the LFO at +1 asks for 600 ms and 500 ms is passed, with a grain
\* of half a second spawned in the pool
C22_Witness ==
    /\ op.name = "GranularEngine::process"
    /\ op.blk.lfoTarget = "Size"
    /\ op.blk.params.grainSizeMs = 4000
    /\ \E s \in 1..op.blk.numSamples :
           /\ op.lfoValue[s] = 1000
           /\ op.passed[s].grainSizeMs = 5000
    /\ \E i \in DOMAIN pool : 2 * pool[i].lengthSamples = scheduler.sr

\* C24: within one GranularEngine::process call the feedback is written
\* back after the per-sample loop: before each sample of the loop, and when
\* the loop ends, the circular buffer is the buffer of the block start
\* changed by the input writes of the samples before only, so that no read
\* of a grain in the block finds feedback of the same block.
C24_FeedbackAfterLoop ==
    op.name = "GranularEngine::process" =>
        LET start == [op.before EXCEPT
                         !.frozen = op.blk.freezeOn,
                         !.activeSamples = op.used[1].activeSamples]
        IN  /\ \A s \in 1..op.blk.numSamples :
                   op.loop[s] = InputOnly(start,
                                          [op.blk EXCEPT !.numSamples = s - 1], 1)
            /\ op.afterLoop = InputOnly(start, op.blk, 1)
            /\ circularBuffer.writePos = op.afterLoop.writePos

\* a block with feedback that wrote its three inputs during the loop and
\* whose feedback changed the same three samples after it
C24_Witness ==
    /\ op.name = "GranularEngine::process"
    /\ FeedbackEnabled(op.feedbackUsed)
    /\ ~ op.blk.freezeOn
    /\ op.afterLoop.buffer # op.before.buffer
    /\ \A s \in 1..op.blk.numSamples :
           LET i == op.used[s].writePos
           IN  /\ op.afterLoop.buffer[0][i] = op.blk.input[s]
               /\ circularBuffer.buffer[0][i] # op.afterLoop.buffer[0][i]

\* C27 as stated: in every published snapshot the normPosition of every
\* active grain is the grain's read position modulo the buffer length
\* divided by that length, in [0, 1) (thousandths here), also for reversed
\* grains and for read positions below 0 or above the active length.
C27_Original ==
    op.name = "GranularEngine::process" =>
        \A i \in 1..kMaxGrains :
            visualData.value.grains[i].active =>
                /\ 0 <= visualData.value.grains[i].normPosition
                /\ visualData.value.grains[i].normPosition < 1000

\* what holds instead: the normPosition of a grain played forward is in
\* [0, 1), that of a reversed grain in (-1, 1), negative when its read
\* position is below 0 and not a multiple of the buffer length
NormPositionSigned ==
    op.name = "GranularEngine::process" =>
        \A i \in 1..kMaxGrains :
            visualData.value.grains[i].active =>
                LET n == visualData.value.grains[i].normPosition
                    r == getReadPosition(pool[i])
                IN  /\ -1000 < n /\ n < 1000
                    /\ ~ pool[i].reversed => (r >= 0 /\ n >= 0)
                    /\ (n < 0) => (pool[i].reversed /\ r < 0)

\* a snapshot with a reversed grain read below index 0 and published with a
\* negative normPosition
NegativeNormPosition ==
    /\ op.name = "GranularEngine::process"
    /\ \E i \in 1..kMaxGrains :
           /\ visualData.value.grains[i].active
           /\ pool[i].reversed
           /\ getReadPosition(pool[i]) < 0
           /\ visualData.value.grains[i].normPosition < 0

\* a snapshot with a forward grain read at or above the active length,
\* published in [0, 1)
ForwardPastEnd ==
    /\ op.name = "GranularEngine::process"
    /\ \E i \in 1..kMaxGrains :
           /\ visualData.value.grains[i].active
           /\ ~ pool[i].reversed
           /\ getReadPosition(pool[i]) >= getActiveLength(circularBuffer) * PosDen
           /\ visualData.value.grains[i].normPosition >= 0

\* the grain spawned on the last sample of a block of grains of 2 samples:
\* active when the call returns, advanced once
SpawnedOnLastSample(i) ==
    /\ pool[i].active
    /\ pool[i].lengthSamples = 2
    /\ pool[i].currentSample = 1

\* the index the last sample of the block was written at, the most recently
\* written one
NewestIndex ==
    op.used[op.blk.numSamples].writePos % getActiveLength(circularBuffer)

\* the index the next sample will be written at: it holds the sample
\* written the longest ago
OldestIndex ==
    getWritePosition(circularBuffer) % getActiveLength(circularBuffer)

\* C28 as stated: with zero position scatter a grain spawned with the
\* position at 0 % starts at the most recently written index of the buffer
\* and a grain spawned with the position at 100 % at the oldest one.
C28_Original ==
    (/\ op.name = "GranularEngine::process"
     /\ op.blk \in PositionBlocks) =>
        \A i \in 1..kMaxGrains :
            SpawnedOnLastSample(i) =>
                /\ op.blk.params.position = 0 =>
                       pool[i].startPos = NewestIndex * PosDen
                /\ op.blk.params.position = 1000 =>
                       pool[i].startPos = OldestIndex * PosDen

\* what holds instead: the start index is the write head, already advanced
\* past the sample just written, less the lookback, modulo the active
\* length; at 0 % and at 100 % alike that is the oldest index
StartAtAdvancedWriteHead ==
    (/\ op.name = "GranularEngine::process"
     /\ op.blk \in PositionBlocks) =>
        \A i \in 1..kMaxGrains :
            SpawnedOnLastSample(i) =>
                /\ pool[i].startPos =
                       Fmod(getWritePosition(circularBuffer) * PosDen
                                - TruncDiv(op.blk.params.position
                                               * getActiveLength(circularBuffer) * PosDen,
                                           1000)
                                + 2 * getActiveLength(circularBuffer) * PosDen,
                            getActiveLength(circularBuffer) * PosDen)
                /\ pool[i].startPos = OldestIndex * PosDen

\* a grain spawned at 0 % on the last sample of the second block, the buffer
\* written all round: it starts one index past the sample just written
StartsAtOldest ==
    /\ op.name = "GranularEngine::process"
    /\ op.blk \in PositionBlocks
    /\ op.blk.params.position = 0
    /\ hist.blocks = 2
    /\ ~ op.before.frozen
    /\ \E i \in 1..kMaxGrains :
           /\ SpawnedOnLastSample(i)
           /\ pool[i].startPos = OldestIndex * PosDen
           /\ OldestIndex = (NewestIndex + 1) % getActiveLength(circularBuffer)
           /\ circularBuffer.buffer[0][NewestIndex] = op.blk.input[op.blk.numSamples]

\* C20 as stated: a change of the freeze flag or of the buffer length while
\* a block is processed takes effect at the start of the next processed
\* sample: every sample is processed with the freeze flag and the active
\* length the parameters hold when it starts.
C20_Original ==
    op.name = "GranularEngine::process" =>
        \A s \in 1..op.blk.numSamples :
            /\ op.used[s].frozen = op.blk.later[s].freezeOn
            /\ op.used[s].activeSamples =
                   (circularBuffer.sr * op.blk.later[s].bufLenSec) \div 10

\* C20 amended: a change of the freeze flag or of the buffer length while a
\* block is processed takes effect at the start of the next block: every
\* sample of a block is processed with the freeze flag and the active
\* length the parameters held when process read them, at its start.
C20_Amended ==
    op.name = "GranularEngine::process" =>
        /\ \A s \in 1..op.blk.numSamples :
               /\ op.used[s].frozen = op.blk.freezeOn
               /\ op.used[s].activeSamples =
                      (circularBuffer.sr * op.blk.bufLenSec) \div 10
        /\ circularBuffer.frozen = op.blk.freezeOn

\* a block during which the parameters went from not frozen to frozen and
\* to a shorter buffer after the first sample, and whose three samples were
\* all written, on the longer buffer
C20_Witness ==
    /\ op.name = "GranularEngine::process"
    /\ ~ op.blk.freezeOn
    /\ op.blk.later[2].freezeOn
    /\ op.blk.later[2].bufLenSec < op.blk.bufLenSec
    /\ \A s \in 1..op.blk.numSamples : ~ op.used[s].frozen
    /\ op.used[3].writePos = op.used[1].writePos + 2
    /\ op.used[3].writePos >= (circularBuffer.sr * op.blk.later[2].bufLenSec) \div 10

----------------------------------------------------------------------------
(* SpecLife: GranularEngine::process called with blocks of one sample at    *)
(* the sample rate 100, where the longest grain has 50 samples and the      *)
(* shortest interval 2.  The density, the grain size and the LFO are those  *)
(* of the run; the history keeps, for each slot, the sample that spawned    *)
(* its grain and the samples the grain was processed on since.              *)

LifePrepare == [sampleRate |-> 100, samplesPerBlock |-> 1]

\* the process calls of a run are counted up to MaxLifeSamples
MaxLifeSamples == 110

\* the runs: the density in tenths of a grain per second, the grain size in
\* tenths of a ms on the first 30 samples and after them, and the depth of
\* a square LFO of 1 Hz on the grain size.  The density and the size at the
\* top of their ranges; the size taken above 500 ms by the LFO on one half
\* of its cycle; grains of one sample at the lowest density; the size
\* falling from 500 ms to 10 ms and rising from 30 ms to 500 ms
LifeRuns ==
    { [density |-> 500, size |-> 5000, later |-> 5000, depth |-> 0],
      [density |-> 500, size |-> 4000, later |-> 4000, depth |-> 100],
      [density |-> 10,  size |-> 100,  later |-> 100,  depth |-> 0],
      [density |-> 500, size |-> 5000, later |-> 100,  depth |-> 0],
      [density |-> 250, size |-> 300,  later |-> 5000, depth |-> 0] }

\* the block of one sample the run gives on its sample t
LifeBlock(run, t) ==
    [WithBuffer(DefaultBlock(1), FALSE, 10) EXCEPT
        !.lfoDepth  = run.depth,
        !.lfoShape  = "Square",
        !.lfoTarget = "Size",
        !.params    = [DefaultParams EXCEPT
                          !.density     = run.density,
                          !.grainSizeMs = IF t <= 30 THEN run.size ELSE run.later]]

InitLife ==
    /\ LET st == GranularEngine_prepare(
                     [ lfo    |-> LFOModulator_new,
                       pp     |-> PostProcessor_new,
                       grains |-> GrainPool_new,
                       vd     |-> VisualData_new ],
                     LifePrepare.sampleRate, LifePrepare.samplesPerBlock, 1)
       IN  /\ circularBuffer = st.cb
           /\ scheduler = st.sch
           /\ pool = st.grains
           /\ writePositions = st.wp
           /\ lfo = st.lfo
           /\ postProcessor = st.pp
           /\ visualData = st.vd
    /\ op = [name |-> "GranularEngine::prepare"]
    /\ \E run \in LifeRuns :
           hist = [ run     |-> run,
                    sample  |-> 0,
                    born    |-> [i \in 1..kMaxGrains |-> 0],
                    visits  |-> [i \in 1..kMaxGrains |-> 0] ]

\* GranularEngine::process on the next one-sample block of the run.  The
\* log keeps whether the scheduler made a spawn attempt, the slot it got
\* (0 for none), the sample that slot was spawned on before and the length
\* its grain had, and the number of grains processed on the sample
LifeProcess ==
    /\ hist.sample < MaxLifeSamples
    /\ \E st \in {GranularEngine_process(EngineState,
                                         LifeBlock(hist.run, hist.sample + 1))},
          slot \in {IF SpawnDue(scheduler) THEN FirstFree(pool) ELSE 0} :
         \E visited \in {{i \in 1..kMaxGrains : pool[i].active \/ i = slot}} :
           /\ circularBuffer' = st.cb
           /\ pool' = st.grains
           /\ scheduler' = st.sch
           /\ writePositions' = st.wp
           /\ lfo' = st.lfo
           /\ postProcessor' = st.pp
           /\ visualData' = st.vd
           /\ op' = [ name       |-> "GranularEngine::process",
                      attempt    |-> SpawnDue(scheduler),
                      slot       |-> slot,
                      bornBefore |-> IF slot = 0 THEN 0 ELSE hist.born[slot],
                      lengthBefore |-> IF slot = 0 THEN 0
                                       ELSE pool[slot].lengthSamples,
                      processed  |-> Cardinality(visited) ]
           /\ hist' = [ run    |-> hist.run,
                        sample |-> hist.sample + 1,
                        born   |-> [i \in 1..kMaxGrains |->
                                       IF i = slot THEN hist.sample + 1
                                       ELSE hist.born[i]],
                        visits |-> [i \in 1..kMaxGrains |->
                                       IF i = slot THEN 1
                                       ELSE IF i \in visited
                                            THEN hist.visits[i] + 1
                                            ELSE hist.visits[i]] ]

NextLife == LifeProcess

SpecLife == InitLife /\ [][NextLife]_vars

----------------------------------------------------------------------------
(* Properties of SpecLife *)

\* C29: a grain spawned on sample s with lengthSamples L is processed on
\* the L consecutive samples s .. s + L - 1 and on no other: after sample
\* t <= s + L - 1 it has been processed t - s + 1 times, it is active
\* exactly while t < s + L - 1, and its slot is acquired again on sample
\* s + L at the earliest.
C29_GrainLivesLengthSamples ==
    op.name = "GranularEngine::process" =>
        /\ \A i \in 1..kMaxGrains :
               hist.born[i] > 0 =>
                   LET L   == pool[i].lengthSamples
                       age == hist.sample - hist.born[i] + 1
                   IN  /\ L >= 1
                       /\ hist.visits[i] = (IF age < L THEN age ELSE L)
                       /\ pool[i].currentSample = hist.visits[i]
                       /\ pool[i].active <=> age < L
        /\ (op.slot # 0 /\ op.bornBefore > 0) =>
               hist.sample >= op.bornBefore + op.lengthBefore

\* slot 1, spawned on sample 1 with 50 samples, is acquired again on sample
\* 51, after its grain was processed on 50 samples
C29_Witness ==
    /\ op.name = "GranularEngine::process"
    /\ op.slot = 1
    /\ op.bornBefore = 1
    /\ op.lengthBefore = 50
    /\ hist.sample = 51
    /\ hist.visits[1] = 1
    /\ pool[1].active

\* the longest grain in samples over the shortest interval, rounded up
MostConcurrent ==
    LET maxLength == (kMaxGrainSizeMs * LifePrepare.sampleRate) \div 10000
        interval  == (LifePrepare.sampleRate * 10) \div kMaxDensity
    IN  (maxLength + interval - 1) \div interval

\* C30: with the density and the grain size in their declared ranges, every
\* spawn attempt of the engine gets a slot, and the grains processed on a
\* sample are at most the longest grain over the shortest interval, rounded
\* up, which is below kMaxGrains.
C30_AcquireNeverFails ==
    op.name = "GranularEngine::process" =>
        /\ op.attempt => op.slot # 0
        /\ op.processed <= MostConcurrent
        /\ MostConcurrent < kMaxGrains
        /\ getActiveCount(pool) <= MostConcurrent

\* a sample after the first hundred, with the density and the size at the
\* top of their ranges, on which the most grains are processed and a slot
\* is acquired that was used before
C30_Witness ==
    /\ op.name = "GranularEngine::process"
    /\ hist.run.density = kMaxDensity
    /\ hist.run.later = kMaxGrainSizeMs
    /\ hist.sample > 100
    /\ op.attempt
    /\ op.bornBefore > 0
    /\ op.processed = MostConcurrent

====
